---- MODULE Spec2Model ----
(***************************************************************************)
(* Permission coordination layer of the Codex agent manager:               *)
(*   - ApprovalStore (src/src/agent/codex/messaging/CodexMessageEmitter.ts) *)
(*   - CodexAgentManager.confirm and its helpers                            *)
(*     (src/src/renderer/messages/MessageList.tsx)                          *)
(*   - mapPermissionDecision (src/unnamed/part_001)                         *)
(***************************************************************************)
EXTENDS Integers, Sequences, FiniteSets, TLC

VARIABLES
    map,                  \* ApprovalStore.map : serialized key -> ReviewDecision
    lastOp,               \* the last ApprovalStore method called directly, with its arguments
    bootstrap,            \* CodexAgentManager.bootstrap : "pending" | "resolved"
    requests,             \* permission requests raised by the agent, in arrival order
    pendingConfirmations, \* tool handlers: call ids awaiting a decision
    patchChanges,         \* tool handlers: call id -> file list of its change set
    execRequestMeta,      \* tool handlers: call id -> {command, cwd}
    confirmations,        \* BaseAgentManager: call ids surfaced to the user
    calls,                \* invocations of confirm, in call order
    bootPc,               \* the await the bootstrap sequence is suspended at
    agentAssigned,        \* whether this.agent has been assigned
    bootError,            \* the error the bootstrap promise was rejected with
    trace,                \* calls made on the collaborators, in program order
    isFirstMessage,       \* CodexAgentManager.isFirstMessage
    processing,           \* cronBusyGuard's processing flag of the conversation
    sends,                \* invocations of sendMessage, in call order, each with the
                          \* await it is at and the branch of `if (isFirstMessage)` it took
    awaiting,             \* callers suspended at `await this.bootstrap`, in order
    observed,             \* what each caller found when that await returned
    forwarded,            \* messages emitted on ipcBridge.codexConversation.responseStream
    persisted,            \* messages written with addMessage
    dispatches,           \* invocations of emitAndPersistMessage and handleNetworkError
    teardown,             \* cleanup: where it is, what it threw, what it logged
    acpMap,               \* AcpApprovalStore.map : serialized key -> option id
    acpLastOp,            \* the last AcpApprovalStore method called, with its arguments
    agentConfig           \* what initAgent read and the options it built the agent with

storeVars == <<map, lastOp>>

dispatchVars == <<forwarded, persisted, dispatches>>

acpVars == <<acpMap, acpLastOp>>

outerVars == <<dispatchVars, teardown, acpVars, agentConfig>>

lifecycleVars == <<bootPc, agentAssigned, bootError, trace, isFirstMessage,
                   processing, sends, awaiting, observed, outerVars>>

sessionVars == <<bootstrap, requests, pendingConfirmations, patchChanges,
                 execRequestMeta, confirmations, calls, lifecycleVars>>

vars == <<map, lastOp, bootstrap, requests, pendingConfirmations, patchChanges,
          execRequestMeta, confirmations, calls, lifecycleVars>>

(***************************************************************************)
(* Values                                                                  *)
(***************************************************************************)

\* JavaScript's undefined (an absent cwd, a Map miss)
Undefined == "<undefined>"

ReviewDecision == {"approved", "approved_for_session", "denied", "abort"}

\* File paths, listed in ascending UTF-16 code-unit order (the order of
\* Array.prototype.sort without a comparator)
PathOrder == <<"a.txt", "b.txt">>

Paths == {PathOrder[i] : i \in 1..Len(PathOrder)}

\* Most entries the cache is let grow to
MaxEntries == 2

\* Longest key list handed to putAll
MaxKeys == 2

RECURSIVE SeqsUpTo(_, _)
SeqsUpTo(S, n) ==
    IF n = 0 THEN {<<>>}
    ELSE LET shorter == SeqsUpTo(S, n - 1)
         IN  shorter \cup {Append(s, x) : s \in shorter, x \in S}

\* command : string | string[]   (a string is <<"str", s>>, an array <<"arr", tokens>>)
ExecApprovalKey(command, cwd) == [type |-> "exec", command |-> command, cwd |-> cwd]

PatchApprovalKey(files) == [type |-> "patch", files |-> files]

createExecApprovalKey(command, cwd) == ExecApprovalKey(command, cwd)

createPatchApprovalKey(files) == PatchApprovalKey(files)

\* The keys the store is driven with: a command as a string and as the
\* one-token array, an absent and an empty cwd, one file set in both orders
StoreKeys ==
    { createExecApprovalKey(<<"str", "ls">>, Undefined),
      createExecApprovalKey(<<"arr", <<"ls">>>>, ""),
      createExecApprovalKey(<<"arr", <<"ls">>>>, "/work"),
      createExecApprovalKey(<<"arr", <<"rm", "-rf", "tmp">>>>, "/work"),
      createPatchApprovalKey(<<>>),
      createPatchApprovalKey(<<"a.txt">>),
      createPatchApprovalKey(<<"a.txt", "b.txt">>),
      createPatchApprovalKey(<<"b.txt", "a.txt">>) }

\* The keys putAll is driven with
PutAllKeys ==
    { createPatchApprovalKey(<<"a.txt">>),
      createPatchApprovalKey(<<"b.txt", "a.txt">>) }

(***************************************************************************)
(* serializeKey                                                            *)
(***************************************************************************)

Rank(p) == CHOOSE i \in 1..Len(PathOrder) : PathOrder[i] = p

RECURSIVE Insert(_, _)
Insert(s, x) ==
    IF s = <<>> THEN <<x>>
    ELSE IF Rank(x) <= Rank(Head(s)) THEN <<x>> \o s
    ELSE <<Head(s)>> \o Insert(Tail(s), x)

\* the file list left in the order it came in
sortSkipped(s) == s

\* [...files].sort()
RECURSIVE sort(_)
sort(s) == IF s = <<>> THEN <<>> ELSE Insert(sort(Tail(s)), Head(s))

\* Array.isArray(command) ? command : [command]
commandArray(command) == IF command[1] = "arr" THEN command[2] ELSE <<command[2]>>

\* the working directory left out of the key
cwdDropped(cwd) == ""

\* cwd || ''
cwdOrEmpty(cwd) == IF cwd = Undefined \/ cwd = "" THEN "" ELSE cwd

\* JSON.stringify of the key object as it came in
serializeKeyWhole(key) == key

\* JSON.stringify of the normalised object: the text is determined by, and
\* determines, the tuple of its fields
serializeKey(key) ==
    IF key.type = "exec"
    THEN <<"exec", commandArray(key.command), cwdOrEmpty(key.cwd)>>
    ELSE <<"patch", sort(key.files)>>

(***************************************************************************)
(* ApprovalStore                                                           *)
(***************************************************************************)

EmptyMap == [k \in {} |-> Undefined]

\* Map.prototype.set
MapSet(m, k, v) == [x \in (DOMAIN m) \cup {k} |-> IF x = k THEN v ELSE m[x]]

\* Map.prototype.get
MapGet(m, k) == IF k \in DOMAIN m THEN m[k] ELSE Undefined

get(m, key) == MapGet(m, serializeKey(key))

\* put without its guard
putAnyDecision(m, key, decision) == MapSet(m, serializeKey(key), decision)

\* put whose guard lets 'denied' through
putUnlessApproved(m, key, decision) ==
    IF decision # "approved" THEN MapSet(m, serializeKey(key), decision) ELSE m

\* put that keeps an entry already present
putIfAbsent(m, key, decision) ==
    IF (decision = "approved_for_session" \/ decision = "abort")
       /\ serializeKey(key) \notin DOMAIN m
    THEN MapSet(m, serializeKey(key), decision)
    ELSE m

\* put that caches rejections only
putAbortOnly(m, key, decision) ==
    IF decision = "abort" THEN MapSet(m, serializeKey(key), decision) ELSE m

\* put that drops the entry of the key on a single-use rejection
putDeniedEvicts(m, key, decision) ==
    IF decision = "approved_for_session" \/ decision = "abort"
    THEN MapSet(m, serializeKey(key), decision)
    ELSE IF decision = "denied"
    THEN [s \in (DOMAIN m) \ {serializeKey(key)} |-> m[s]]
    ELSE m

put(m, key, decision) ==
    IF decision = "approved_for_session" \/ decision = "abort"
    THEN MapSet(m, serializeKey(key), decision)
    ELSE m

\* isRejectedForSession comparing with the single-use rejection
isRejectedForSessionDenied(m, key) == get(m, key) = "denied"

\* isRejectedForSession true of every cached key
isRejectedForSessionAnyCached(m, key) == get(m, key) # Undefined

isRejectedForSession(m, key) == get(m, key) = "abort"

\* allApprovedForSession without its test for the empty list
allApprovedForSessionEvery(m, keys) ==
    \A i \in 1..Len(keys) : get(m, keys[i]) = "approved_for_session"

allApprovedForSession(m, keys) ==
    IF Len(keys) = 0 THEN FALSE
    ELSE \A i \in 1..Len(keys) : get(m, keys[i]) = "approved_for_session"

RECURSIVE putEach(_, _, _)
putEach(m, keys, decision) ==
    IF keys = <<>> THEN m
    ELSE putEach(put(m, Head(keys), decision), Tail(keys), decision)

\* a putAll that stops after the first key
putAllFirstKey(m, keys, decision) ==
    IF keys = <<>> THEN m ELSE put(m, Head(keys), decision)

putAll(m, keys, decision) ==
    IF decision = "approved_for_session" \/ decision = "abort"
    THEN putEach(m, keys, decision)
    ELSE m

clear(m) == EmptyMap

size(m) == Cardinality(DOMAIN m)

(***************************************************************************)
(* The store driven directly: any sequence of put, putAll and clear        *)
(***************************************************************************)

SessionInit ==
    /\ bootstrap = "pending"
    /\ requests = <<>>
    /\ pendingConfirmations = {}
    /\ patchChanges = EmptyMap
    /\ execRequestMeta = EmptyMap
    /\ confirmations = {}
    /\ calls = <<>>
    /\ bootPc = "identity"
    /\ agentAssigned = FALSE
    /\ bootError = <<>>
    /\ trace = <<>>
    /\ isFirstMessage = TRUE
    /\ processing = FALSE
    /\ sends = <<>>
    /\ awaiting = <<>>
    /\ observed = <<>>
    /\ forwarded = <<>>
    /\ persisted = <<>>
    /\ dispatches = <<>>
    /\ teardown = [pc |-> "none", stop |-> "none", thrown |-> <<>>, logged |-> <<>>]
    /\ agentConfig = <<>>
    /\ acpMap = [k \in {} |-> ""]
    /\ acpLastOp = [op |-> "new"]

StoreInit ==
    /\ map = EmptyMap
    /\ lastOp = [op |-> "new"]
    /\ SessionInit

Put(key, decision) ==
    /\ size(put(map, key, decision)) <= MaxEntries
    /\ map' = put(map, key, decision)
    /\ lastOp' = [op |-> "put", key |-> key, decision |-> decision]
    /\ UNCHANGED sessionVars

PutAll(keys, decision) ==
    /\ size(putAll(map, keys, decision)) <= MaxEntries
    /\ map' = putAll(map, keys, decision)
    /\ lastOp' = [op |-> "putAll", keys |-> keys, decision |-> decision]
    /\ UNCHANGED sessionVars

Clear ==
    /\ map' = clear(map)
    /\ lastOp' = [op |-> "clear"]
    /\ UNCHANGED sessionVars

StoreNext ==
    \/ \E key \in StoreKeys, decision \in ReviewDecision : Put(key, decision)
    \/ \E keys \in SeqsUpTo(PutAllKeys, MaxKeys), decision \in ReviewDecision :
           PutAll(keys, decision)
    \/ Clear

SpecStore == StoreInit /\ [][StoreNext]_vars

(***************************************************************************)
(* SpecKeys: one decision put under a key, then read under other keys      *)
(***************************************************************************)

\* Longest file list of a patch key
MaxFiles == 3

\* Longest command array of an exec key
MaxTokens == 2

Tokens == {"ls", "-a"}

Commands ==
    {<<"str", t>> : t \in Tokens} \cup {<<"arr", s>> : s \in SeqsUpTo(Tokens, MaxTokens)}

Cwds == {Undefined, "", "/work"}

Titles == {"Run ls", "List files"}

\* An object with the fields of ExecApprovalKey and, besides them, the title
\* of the request it was made for (the key types are structural)
TitledExecKey(command, cwd, title) ==
    [type |-> "exec", command |-> command, cwd |-> cwd, title |-> title]

ExecKeys == {createExecApprovalKey(c, w) : c \in Commands, w \in Cwds}

TitledExecKeys ==
    {TitledExecKey(c, w, t) : c \in {<<"str", "ls">>, <<"arr", <<"ls">>>>},
                              w \in {"", "/work"}, t \in Titles}

\* File lists in every order, with and without a repeated path
PatchKeys == {createPatchApprovalKey(files) : files \in SeqsUpTo(Paths, MaxFiles)}

KeyUniverse == ExecKeys \cup TitledExecKeys \cup PatchKeys

\* store.get(key), called after a put, whose key and decision it records
Get(key) ==
    /\ lastOp.op = "put"
    /\ lastOp' = [ op |-> "get", key |-> key, result |-> get(map, key),
                   putKey |-> lastOp.key, putDecision |-> lastOp.decision ]
    /\ UNCHANGED map
    /\ UNCHANGED sessionVars

\* A put into the new or cleared store, a get, a clear
KeysNext ==
    \/ \E key \in KeyUniverse, decision \in ReviewDecision :
           lastOp.op \in {"new", "clear"} /\ Put(key, decision)
    \/ \E key \in KeyUniverse : Get(key)
    \/ Clear

SpecKeys == StoreInit /\ [][KeysNext]_vars

(***************************************************************************)
(* Permission decision mapping                                             *)
(***************************************************************************)

\* The option ids the decision table defines (its own properties)
PermissionOptionIds == {"allow_once", "allow_always", "reject_once", "reject_always"}

\* PERMISSION_DECISION_MAP, an object literal
PERMISSION_DECISION_MAP ==
    [optionId \in PermissionOptionIds |->
        CASE optionId = "allow_once" -> "approved"
          [] optionId = "allow_always" -> "approved_for_session"
          [] optionId = "reject_once" -> "denied"
          [] optionId = "reject_always" -> "abort"]

\* Property names every object literal inherits from Object.prototype
ObjectPrototypeKeys == {"constructor"}

\* The value of an inherited member (a function: truthy, and no ReviewDecision)
PrototypeMember == "<Object.prototype member>"

\* data in PERMISSION_DECISION_MAP : own and inherited properties
InDecisionMap(data) == data \in PermissionOptionIds \cup ObjectPrototypeKeys

\* PERMISSION_DECISION_MAP[optionId]
DecisionMapLookup(optionId) ==
    IF optionId \in PermissionOptionIds THEN PERMISSION_DECISION_MAP[optionId]
    ELSE IF optionId \in ObjectPrototypeKeys THEN PrototypeMember
    ELSE Undefined

\* PERMISSION_DECISION_MAP[optionId] || 'denied'
mapPermissionDecision(optionId) ==
    IF DecisionMapLookup(optionId) = Undefined THEN "denied"
    ELSE DecisionMapLookup(optionId)

\* data in PERMISSION_DECISION_MAP ? data : 'reject_once'
decisionKey(data) == IF InDecisionMap(data) THEN data ELSE "reject_once"

\* What the user interface, or any other caller of confirm, may pass as data:
\* the four options, an unknown id, the empty string, a missing value, and a
\* name the table inherits
ConfirmData ==
    PermissionOptionIds \cup {"later", "", Undefined} \cup ObjectPrototypeKeys

(***************************************************************************)
(* Call ids                                                                *)
(***************************************************************************)

\* The backend's own call ids, in the order the agent issues them
RawCallIds == <<"c1", "c2", "c3", "c4", "c5">>

\* A call id is its text cut into tokens: the structural prefixes, then the rest
StartsWith(callId, prefix) == Len(callId) > 0 /\ callId[1] = prefix

\* a normalization that strips recognized prefixes twice
normalizeCallIdTwice(callId) ==
    LET strip(c) == IF Len(c) > 0 /\ c[1] \in {"permission_", "patch_", "elicitation_", "exec_"}
                    THEN Tail(c) ELSE c
    IN  strip(strip(callId))

\* callId.startsWith(p) ? callId.substring(p.length) : ..., tested in order
normalizeCallId(callId) ==
    IF StartsWith(callId, "permission_") THEN Tail(callId)
    ELSE IF StartsWith(callId, "patch_") THEN Tail(callId)
    ELSE IF StartsWith(callId, "elicitation_") THEN Tail(callId)
    ELSE IF StartsWith(callId, "exec_") THEN Tail(callId)
    ELSE callId

(***************************************************************************)
(* Tool handlers and agent (collaborators of confirm)                      *)
(***************************************************************************)

None == <<>>

Some(x) == <<x>>

getPatchChanges(changes, callId) ==
    IF callId \in DOMAIN changes THEN Some(changes[callId]) ELSE None

getExecRequestMeta(meta, callId) ==
    IF callId \in DOMAIN meta THEN Some(meta[callId]) ELSE None

storeExecApproval(m, command, cwd, decision) ==
    put(m, createExecApprovalKey(command, cwd), decision)

storePatchApproval(m, files, decision) ==
    put(m, createPatchApprovalKey(files), decision)

checkExecApproval(m, command, cwd) ==
    get(m, createExecApprovalKey(command, cwd)) = "approved_for_session"

checkPatchApproval(m, files) ==
    get(m, createPatchApprovalKey(files)) = "approved_for_session"

checkExecRejection(m, command, cwd) ==
    isRejectedForSession(m, createExecApprovalKey(command, cwd))

checkPatchRejection(m, files) ==
    isRejectedForSession(m, createPatchApprovalKey(files))

(***************************************************************************)
(* CodexAgentManager.confirm                                               *)
(***************************************************************************)

\* an approval test that counts everything but the single-use rejection
isApprovedDecisionUnlessDenied(decision) == decision # "denied"

isApprovedDecision(decision) ==
    decision = "approved" \/ decision = "approved_for_session"

isCacheableDecision(decision) ==
    decision = "approved_for_session" \/ decision = "abort"

\* a storeApprovalDecision that knows exec requests only
storeApprovalDecisionExecOnly(m, changes, meta, callId, decision) ==
    LET execMeta == getExecRequestMeta(meta, callId)
    IN  IF execMeta # None
        THEN storeExecApproval(m, execMeta[1].command, execMeta[1].cwd, decision)
        ELSE m

\* storeApprovalDecision(callId, decision): the store after it
storeApprovalDecision(m, changes, meta, callId, decision) ==
    LET execMeta == getExecRequestMeta(meta, callId)
        patch    == getPatchChanges(changes, callId)
    IN  IF execMeta # None
        THEN storeExecApproval(m, execMeta[1].command, execMeta[1].cwd, decision)
        ELSE IF patch # None
        THEN storePatchApproval(m, patch[1], decision)
        ELSE m

\* the apply condition without the decision
shouldApplyPatchAnyDecision(changes, isApproved) == changes # None

\* if (changes && isApproved)
shouldApplyPatch(changes, isApproved) == changes # None /\ isApproved

\* The calls made on the collaborators, in program order
ApplyDispatched(callId) == <<"applyBatchChanges", callId>>

PatchApplied(callId) == <<"emitSessionEvent", "patch_applied", callId>>

\* Errors applyBatchChanges rejects with
ApplyErrors == { <<"EACCES: permission denied">> }

PatchFailed(callId, error) ==
    <<"emitSessionEvent", "patch_failed", [callId |-> callId, error |-> error]>>

RespondElicitation(origCallId, decision) == <<"respondElicitation", origCallId, decision>>

ResolvePermission(origCallId, approved) == <<"resolvePermission", origCallId, approved>>

\* Lines 537-553: normalise the id, acknowledge, release the gate
resolveCall(callId, decision) ==
    LET origCallId == normalizeCallId(callId)
    IN  << RespondElicitation(origCallId, decision),
           ResolvePermission(origCallId, isApprovedDecision(decision)) >>

\* confirm(id, callId, data) up to its first real suspension point.  The
\* bootstrap promise is already resolved whenever a request exists, so the
\* continuation after `await this.bootstrap` runs before any other handler.
\* changes and meta are the tool handlers' maps as confirm finds them.
confirm(id, callId, data, changes, meta) ==
    LET decision   == mapPermissionDecision(decisionKey(data))
        isApproved == isApprovedDecision(decision)
        stored     == IF isCacheableDecision(decision)
                      THEN storeApprovalDecision(map, changes, meta, callId, decision)
                      ELSE map
        found      == getPatchChanges(changes, callId)
        applying   == shouldApplyPatch(found, isApproved)
    IN  /\ confirmations' = confirmations \ {callId}
        /\ pendingConfirmations' = pendingConfirmations \ {callId}
        /\ map' = stored
        /\ calls' = Append(calls,
              [ id |-> id, callId |-> callId, data |-> data, decision |-> decision,
                changes |-> found, thrown |-> None,
                pc |-> IF applying THEN "applying" ELSE "done",
                effects |-> IF applying THEN <<ApplyDispatched(callId)>>
                            ELSE resolveCall(callId, decision) ])

\* applyBatchChanges resolved: patch_applied, then confirm runs to its end
ApplyOk(i) ==
    /\ i \in 1..Len(calls)
    /\ calls[i].pc = "applying"
    /\ calls' = [calls EXCEPT ![i].pc = "done",
                              ![i].effects = @ \o <<PatchApplied(calls[i].callId)>>
                                               \o resolveCall(calls[i].callId, calls[i].decision)]
    /\ UNCHANGED <<map, lastOp, bootstrap, requests, pendingConfirmations,
                   patchChanges, execRequestMeta, confirmations>>
    /\ UNCHANGED lifecycleVars

\* an apply failure that takes the cached decision of the call back
applyFailedRollingBack(m, call, e) ==
    [ store |-> [k \in (DOMAIN m) \ {serializeKey(createPatchApprovalKey(call.changes[1]))}
                     |-> m[k]],
      events |-> <<PatchFailed(call.callId, e)>>, thrown |-> Some(e) ]

\* The catch block of applyPatchChanges (lines 590-598): the event, the
\* rethrow, and the store as it leaves it
applyFailed(m, call, e) ==
    [ store |-> m, events |-> <<PatchFailed(call.callId, e)>>, thrown |-> Some(e) ]

\* applyBatchChanges rejected: patch_failed, the error is thrown out of confirm
ApplyFail(i, e) ==
    /\ i \in 1..Len(calls)
    /\ calls[i].pc = "applying"
    /\ LET failed == applyFailed(map, calls[i], e)
       IN  /\ calls' = [calls EXCEPT ![i].pc = "failed",
                                     ![i].effects = @ \o failed.events,
                                     ![i].thrown = failed.thrown]
           /\ map' = failed.store
    /\ UNCHANGED <<lastOp, bootstrap, requests, pendingConfirmations,
                   patchChanges, execRequestMeta, confirmations>>
    /\ UNCHANGED lifecycleVars

(***************************************************************************)
(* CodexAgentManager.bootstrap                                             *)
(***************************************************************************)

\* An error message is its text cut into phrases; String.prototype.includes
Includes(message, phrase) == \E n \in 1..Len(message) : message[n] = phrase

\* Errors a bootstrap step is rejected with
BootErrors == { <<"spawn codex ENOENT">>, <<"connect ", "timed out">> }

\* Errors getDiagnostics throws
DiagnosticsErrors == { <<"probe ", "timed out">>, <<"authentication", " required">> }

Outcomes(errors) == {None} \cup {Some(e) : e \in errors}

SetAppConfig == <<"setAppConfig", "identity">>

ReadCodexConfig == <<"ProcessConfig.get", "codex.config">>

NewCodexAgent == <<"new CodexAgent", "codex">>

StartSession(phase) == <<"startSession", phase>>

AgentStart(phase) == <<"start", phase>>

\* a call of getDiagnostics and what it did (None: returned, Some(e): threw e)
GetDiagnostics(outcome) == <<"getDiagnostics", outcome>>

EmitSessionEvent(name, payload) == <<"emitSessionEvent", name, payload>>

NewSession(content) == <<"newSession", content>>

SendPrompt(content) == <<"sendPrompt", content>>

\* The value getDiagnostics returns
Diagnostics == [agent |-> "agentDiagnostics", session |-> "sessionInfo"]

\* Lines 400-408
suggestions(errorMessage) ==
    IF Includes(errorMessage, "timed out")
    THEN << "Check if Codex CLI is installed: run \"codex --version\"",
            "Verify authentication: run \"codex auth status\"",
            "Check network connectivity",
            "Try restarting the application" >>
    ELSE IF Includes(errorMessage, "command not found")
    THEN << "Install Codex CLI: https://codex.com/install",
            "Add Codex to your PATH environment variable",
            "Restart your terminal/application after installation" >>
    ELSE IF Includes(errorMessage, "authentication")
    THEN << "Run \"codex auth\" to authenticate with your account",
            "Check if your authentication token is valid",
            "Try logging out and logging back in" >>
    ELSE <<>>

SessionPartial(errorMessage) ==
    EmitSessionEvent("session_partial",
        [ agent_type |-> "codex", error |-> errorMessage,
          diagnostics |-> Diagnostics, suggestions |-> suggestions(errorMessage) ])

\* post-connection setup that also creates the session
performPostConnectionSetupWithSession(first, second) ==
    [ events |-> <<GetDiagnostics(None), NewSession([text |-> <<>>, injected |-> FALSE])>>,
      thrown |-> None ]

\* performPostConnectionSetup: first and second are what the getDiagnostics
\* call in the try block and the one in the catch block do (None: return,
\* Some(e): throw e).  The calls made, and the error that leaves the method.
performPostConnectionSetup(first, second) ==
    IF first = None
    THEN [events |-> <<GetDiagnostics(first)>>, thrown |-> None]
    ELSE IF second # None
    THEN [events |-> <<GetDiagnostics(first), GetDiagnostics(second)>>, thrown |-> second]
    ELSE [ events |-> << GetDiagnostics(first), GetDiagnostics(second),
                         SessionPartial(first[1]) >>,
           thrown |-> None ]

\* Lines 364-367: this.agent?.getSessionManager?.()?.emitSessionEvent(...)
bootstrapFailed(assigned, e) ==
    IF assigned THEN <<EmitSessionEvent("bootstrap_failed", [error |-> e])>> ELSE <<>>

\* The bootstrap promise settles
Resolved(events) ==
    /\ bootstrap' = "resolved"
    /\ bootPc' = "done"
    /\ trace' = trace \o events
    /\ UNCHANGED bootError

Rejected(events, assigned, e) ==
    /\ bootstrap' = "rejected"
    /\ bootPc' = "done"
    /\ bootError' = e
    /\ trace' = trace \o events \o bootstrapFailed(assigned, e)

otherVars == <<map, lastOp, requests, pendingConfirmations, patchChanges,
               execRequestMeta, confirmations, calls, isFirstMessage, processing,
               sends, awaiting, observed, outerVars>>

\* import('electron') settled: the identity is set from the app, or from the
\* configured defaults; then codex.config is requested
IdentityConfigured ==
    /\ bootstrap = "pending" /\ bootPc = "identity"
    /\ trace' = trace \o <<SetAppConfig, ReadCodexConfig>>
    /\ bootPc' = "config"
    /\ UNCHANGED <<bootstrap, bootError, agentAssigned>>
    /\ UNCHANGED otherVars

\* ProcessConfig.get settled; the agent is constructed and startSession called
ConfigRead(read, constructed) ==
    /\ bootstrap = "pending" /\ bootPc = "config"
    /\ IF read # None
       THEN Rejected(<<>>, FALSE, read[1]) /\ UNCHANGED agentAssigned
       ELSE IF constructed # None
       THEN Rejected(<<>>, FALSE, constructed[1]) /\ UNCHANGED agentAssigned
       ELSE /\ agentAssigned' = TRUE
            /\ trace' = trace \o <<NewCodexAgent, StartSession("begin")>>
            /\ bootPc' = "startSession"
            /\ UNCHANGED <<bootstrap, bootError>>
    /\ UNCHANGED otherVars

\* startSession settled; agent.start is called
StartSessionDone(outcome) ==
    /\ bootstrap = "pending" /\ bootPc = "startSession"
    /\ IF outcome # None
       THEN Rejected(<<>>, agentAssigned, outcome[1])
       ELSE /\ trace' = trace \o <<StartSession("end"), AgentStart("begin")>>
            /\ bootPc' = "start"
            /\ UNCHANGED <<bootstrap, bootError>>
    /\ UNCHANGED agentAssigned
    /\ UNCHANGED otherVars

\* agent.start settled; post-connection setup runs and the promise settles
AgentStartDone(outcome, first, second) ==
    /\ bootstrap = "pending" /\ bootPc = "start"
    /\ IF outcome # None
       THEN Rejected(<<>>, agentAssigned, outcome[1])
       ELSE LET setup == performPostConnectionSetup(first, second)
            IN  IF setup.thrown # None
                THEN Rejected(<<AgentStart("end")>> \o setup.events, agentAssigned,
                              setup.thrown[1])
                ELSE Resolved(<<AgentStart("end")>> \o setup.events)
    /\ UNCHANGED agentAssigned
    /\ UNCHANGED otherVars

\* The calls of a bootstrap in which every step succeeds
SuccessfulBootstrap ==
    << SetAppConfig, ReadCodexConfig, NewCodexAgent,
       StartSession("begin"), StartSession("end"), AgentStart("begin"),
       AgentStart("end") >> \o performPostConnectionSetup(None, None).events

(***************************************************************************)
(* Session: bootstrap, permission requests, decisions                      *)
(***************************************************************************)

\* The whole bootstrap sequence, every step of it succeeding
BootstrapResolve ==
    /\ bootstrap = "pending" /\ bootPc = "identity"
    /\ agentAssigned' = TRUE
    /\ Resolved(SuccessfulBootstrap)
    /\ UNCHANGED otherVars

ExecRequest(prefix, command, cwd, title) ==
    [kind |-> "exec", prefix |-> prefix, title |-> title, command |-> command, cwd |-> cwd]

PatchRequest(prefix, files, title) ==
    [kind |-> "patch", prefix |-> prefix, title |-> title, files |-> files]

\* The cached decision a new request meets: the option to auto-confirm with,
\* or "surfaced" when the user has to be asked
lookupOutcome(m, req) ==
    IF req.kind = "exec"
    THEN IF checkExecRejection(m, req.command, req.cwd) THEN "reject_always"
         ELSE IF checkExecApproval(m, req.command, req.cwd) THEN "allow_always"
         ELSE "surfaced"
    ELSE IF checkPatchRejection(m, req.files) THEN "reject_always"
         ELSE IF checkPatchApproval(m, req.files) THEN "allow_always"
         ELSE "surfaced"

\* The agent raises a permission request; the handler records its metadata,
\* looks the operation up in the store and either auto-confirms or asks
Raise(req, maxRequests) ==
    /\ bootstrap = "resolved"
    /\ Len(requests) < maxRequests
    /\ Len(requests) < Len(RawCallIds)
    /\ LET callId  == req.prefix \o <<RawCallIds[Len(requests) + 1]>>
           outcome == lookupOutcome(map, req)
           changes == IF req.kind = "patch"
                      THEN MapSet(patchChanges, callId, req.files) ELSE patchChanges
           meta    == IF req.kind = "exec"
                      THEN MapSet(execRequestMeta, callId,
                                  [command |-> req.command, cwd |-> req.cwd])
                      ELSE execRequestMeta
       IN  /\ requests' = Append(requests,
                                 [callId |-> callId, req |-> req, outcome |-> outcome])
           /\ patchChanges' = changes
           /\ execRequestMeta' = meta
           /\ IF outcome = "surfaced"
              THEN /\ pendingConfirmations' = pendingConfirmations \cup {callId}
                   /\ confirmations' = confirmations \cup {callId}
                   /\ UNCHANGED <<map, calls>>
              ELSE confirm(callId, callId, outcome, changes, meta)
    /\ UNCHANGED <<lastOp, bootstrap>>
    /\ UNCHANGED lifecycleVars

RaisedCallIds == {requests[n].callId : n \in 1..Len(requests)}

\* A decision arrives for a call id: from the dialog, or from any other caller
Confirm(callId, data) ==
    /\ callId \in RaisedCallIds
    /\ confirm("msg", callId, data, patchChanges, execRequestMeta)
    /\ UNCHANGED <<lastOp, bootstrap, requests, patchChanges, execRequestMeta>>
    /\ UNCHANGED lifecycleVars

(***************************************************************************)
(* Spec: decisions for any raised call id, repeated ones included          *)
(***************************************************************************)

\* Most requests the agent raises
MaxRequests == 2

\* Most invocations of confirm
MaxCalls == 2

Requests ==
    { ExecRequest(<<"permission_">>, <<"arr", <<"rm", "-rf", "tmp">>>>, "/work", "Run rm"),
      PatchRequest(<<"patch_">>, <<"a.txt", "b.txt">>, "Edit files") }

Init ==
    /\ map = EmptyMap
    /\ lastOp = [op |-> "new"]
    /\ SessionInit

Next ==
    \/ BootstrapResolve
    \/ \E req \in Requests : Len(calls) < MaxCalls /\ Raise(req, MaxRequests)
    \/ \E callId \in RaisedCallIds, data \in ConfirmData :
           Len(calls) < MaxCalls /\ Confirm(callId, data)
    \/ \E i \in 1..Len(calls) : ApplyOk(i)
    \/ \E i \in 1..Len(calls), e \in ApplyErrors : ApplyFail(i, e)

Spec == Init /\ [][Next]_vars

(***************************************************************************)
(* SpecExec, SpecPatch: a session in which the agent repeats an operation  *)
(* and the user answers each surfaced request once                         *)
(***************************************************************************)

\* Most requests the agent raises in such a session
MaxRepeats == 3

ExecDialogData == {"allow_once", "allow_always", "reject_always"}

PatchDialogData == {"allow_always", "reject_always"}

RepeatedExecRequests ==
    { ExecRequest(<<"permission_">>, <<"arr", <<"rm", "-rf", "tmp">>>>, "/work", "Run rm"),
      ExecRequest(<<"permission_">>, <<"arr", <<"rm", "-rf", "tmp">>>>, "/work", "Clean up"),
      ExecRequest(<<"permission_">>, <<"str", "ls">>, Undefined, "Run rm") }

RepeatedPatchRequests ==
    { PatchRequest(<<"permission_">>, <<"a.txt", "b.txt">>, "Edit files"),
      PatchRequest(<<"permission_">>, <<"b.txt", "a.txt">>, "Edit files"),
      PatchRequest(<<"permission_">>, <<"a.txt">>, "Edit files") }

ExecNext ==
    \/ BootstrapResolve
    \/ \E req \in RepeatedExecRequests : Raise(req, MaxRepeats)
    \/ \E callId \in confirmations, data \in ExecDialogData : Confirm(callId, data)

SpecExec == Init /\ [][ExecNext]_vars

PatchNext ==
    \/ BootstrapResolve
    \/ \E req \in RepeatedPatchRequests : Raise(req, MaxRepeats)
    \/ \E callId \in confirmations, data \in PatchDialogData : Confirm(callId, data)
    \/ \E i \in 1..Len(calls) : ApplyOk(i)
    \/ \E i \in 1..Len(calls), e \in ApplyErrors : ApplyFail(i, e)

SpecPatch == Init /\ [][PatchNext]_vars

(***************************************************************************)
(* CodexAgentManager.sendMessage                                           *)
(***************************************************************************)

AIONUI_FILES_MARKER == "[[AION_FILES]]"

\* Message texts, cut into the pieces the code looks at
Contents == { <<"hello">>, <<"see", " ", AIONUI_FILES_MARKER, "a.txt">> }

\* content.split(AIONUI_FILES_MARKER)[0]
RECURSIVE splitFirst(_)
splitFirst(content) ==
    IF content = <<>> \/ Head(content) = AIONUI_FILES_MARKER THEN <<>>
    ELSE <<Head(content)>> \o splitFirst(Tail(content))

RECURSIVE trimEnd(_)
trimEnd(text) ==
    IF text # <<>> /\ text[Len(text)] = " "
    THEN trimEnd(SubSeq(text, 1, Len(text) - 1))
    ELSE text

contentToSend(content) ==
    IF Includes(content, AIONUI_FILES_MARKER) THEN trimEnd(splitFirst(content))
    ELSE content

\* processFileReferences(contentToSend, files)
processFileReferences(text) == [text |-> text, injected |-> FALSE]

\* prepareFirstMessageWithSkillsIndex(processedContent, {presetContext, enabledSkills})
prepareFirstMessageWithSkillsIndex(processedContent) ==
    [processedContent EXCEPT !.injected = TRUE]

\* Errors processFileReferences, prepareFirstMessageWithSkillsIndex, newSession
\* and sendPrompt fail with
\* A thrown value: an Error with its message, or a value that is no Error,
\* with the text String(e) gives
ErrorOf(message) == [instanceofError |-> TRUE, message |-> message]

NonError(text) == [instanceofError |-> FALSE, message |-> text]

\* e instanceof Error ? e.message : String(e)
errorMsg(e) == e.message

SendErrors == { ErrorOf(<<"boom">>) }

\* Values the awaited calls of sendMessage reject with, by what the catch
\* block looks for in them
SendFailures ==
    { ErrorOf(<<"request ", "timeout">>),
      ErrorOf(<<"timeout", " during ", "authentication">>),
      ErrorOf(<<"authentication", " failed: ", "network", " unreachable">>),
      ErrorOf(<<"network", " unreachable">>),
      ErrorOf(<<"boom">>),
      ErrorOf(<<"You've hit your usage limit">>),
      NonError(<<"network", " unreachable">>),
      NonError(<<"you've hit your usage limit">>) }

toLowerCase(message) ==
    [ n \in 1..Len(message) |->
        IF message[n] = "You've hit your usage limit"
        THEN "you've hit your usage limit" ELSE message[n] ]

isUsageLimitError(e) ==
    Includes(toLowerCase(errorMsg(e)), "you've hit your usage limit")

\* a catch block that classifies errorMsg, whatever was thrown
sendErrorTextOfAnyValue(e) ==
    IF Includes(e.message, "timeout")
    THEN <<"Request timed out. Please check your connection and try again.">>
    ELSE IF Includes(e.message, "authentication")
    THEN <<"Authentication failed. Please verify your Codex credentials.">>
    ELSE IF Includes(e.message, "network")
    THEN <<"Network error. Please check your internet connection.">>
    ELSE <<"Codex error: ">> \o e.message

\* Lines 485-496
sendErrorText(e) ==
    IF ~e.instanceofError THEN <<"Failed to send message to Codex">>
    ELSE IF Includes(e.message, "timeout")
    THEN <<"Request timed out. Please check your connection and try again.">>
    ELSE IF Includes(e.message, "authentication")
    THEN <<"Authentication failed. Please verify your Codex credentials.">>
    ELSE IF Includes(e.message, "network")
    THEN <<"Network error. Please check your internet connection.">>
    ELSE <<"Codex error: ">> \o e.message

EmitError(text) == <<"responseStream.emit", "error", text>>

\* What the catch block of sendMessage forwards before it rethrows e
sendFailed(e) == IF isUsageLimitError(e) THEN <<>> ELSE <<EmitError(sendErrorText(e))>>

Caller(kind, n, callId, data) == [kind |-> kind, n |-> n, callId |-> callId, data |-> data]

\* an await that swallows the rejection of the bootstrap promise
awaitBootstrapSwallowed(settled, e) == [ok |-> TRUE, error |-> <<>>]

\* an await that goes on after a failed bootstrap, the error in hand
awaitBootstrapIgnoringFailure(settled, e) == [ok |-> TRUE, error |-> e]

\* await this.bootstrap, once the promise is settled: the agent, or the error
awaitBootstrap(settled, e) ==
    IF settled = "resolved" THEN [ok |-> TRUE, error |-> <<>>]
    ELSE [ok |-> FALSE, error |-> e]

\* sendMessage up to `await this.bootstrap`
SendMessage(content) ==
    /\ processing' = TRUE
    /\ sends' = Append(sends, [ content |-> content, pc |-> "bootstrap", route |-> "",
                                error |-> None ])
    /\ awaiting' = Append(awaiting, Caller("sendMessage", Len(sends) + 1, <<>>, ""))
    /\ UNCHANGED <<map, lastOp, bootstrap, requests, pendingConfirmations, patchChanges,
                   execRequestMeta, confirmations, calls, bootPc, agentAssigned,
                   bootError, trace, isFirstMessage, observed, outerVars>>

\* confirm up to `await this.bootstrap`: super.confirm takes the confirmation
\* off the list
ConfirmCall(callId, data) ==
    /\ confirmations' = confirmations \ {callId}
    /\ awaiting' = Append(awaiting, Caller("confirm", 0, callId, data))
    /\ UNCHANGED <<map, lastOp, bootstrap, requests, pendingConfirmations, patchChanges,
                   execRequestMeta, calls, bootPc, agentAssigned, bootError, trace,
                   isFirstMessage, processing, sends, observed, outerVars>>

\* a catch block that leaves the processing flag as it finds it
SendCatchStillBusy(n, e, events) ==
    /\ processing' = processing
    /\ sends' = [sends EXCEPT ![n].pc = "failed", ![n].error = Some(e)]
    /\ trace' = trace \o events \o sendFailed(e)

\* The catch block of sendMessage, for its n-th invocation
SendCatch(n, e, events) ==
    /\ processing' = FALSE
    /\ sends' = [sends EXCEPT ![n].pc = "failed", ![n].error = Some(e)]
    /\ trace' = trace \o events \o sendFailed(e)

\* sendMessage from the bootstrap await to its next await (lines 430-460, 468)
SendResumed(n, found, refs) ==
    LET processedContent == processFileReferences(contentToSend(sends[n].content))
    IN  IF ~found.ok
        THEN SendCatch(n, ErrorOf(found.error), <<>>) /\ UNCHANGED isFirstMessage
        ELSE IF refs # None
        THEN SendCatch(n, refs[1], <<>>) /\ UNCHANGED isFirstMessage
        ELSE IF isFirstMessage
        THEN /\ isFirstMessage' = FALSE
             /\ sends' = [sends EXCEPT ![n].pc = "prepare", ![n].route = "newSession"]
             /\ UNCHANGED <<trace, processing>>
        ELSE /\ trace' = Append(trace, SendPrompt(processedContent))
             /\ sends' = [sends EXCEPT ![n].pc = "sendPrompt", ![n].route = "sendPrompt"]
             /\ UNCHANGED <<isFirstMessage, processing>>

\* The bootstrap promise is settled and the caller that has waited longest
\* continues; refs is what processFileReferences does
Resume(refs) ==
    /\ bootstrap # "pending"
    /\ awaiting # <<>>
    /\ LET caller == Head(awaiting)
           found  == awaitBootstrap(bootstrap, bootError)
       IN  /\ awaiting' = Tail(awaiting)
           /\ observed' = Append(observed, [caller |-> caller, found |-> found])
           /\ IF caller.kind = "sendMessage"
              THEN /\ SendResumed(caller.n, found, refs)
                   /\ UNCHANGED <<map, pendingConfirmations, confirmations, calls>>
              ELSE /\ IF found.ok
                      THEN confirm("msg", caller.callId, caller.data,
                                   patchChanges, execRequestMeta)
                      ELSE UNCHANGED <<map, pendingConfirmations, confirmations, calls>>
                   /\ UNCHANGED <<trace, isFirstMessage, processing, sends>>
    /\ UNCHANGED <<lastOp, bootstrap, requests, patchChanges, execRequestMeta, bootPc,
                   agentAssigned, bootError, outerVars>>

\* prepareFirstMessageWithSkillsIndex settled; newSession is called
PrepareDone(n, outcome) ==
    /\ n \in 1..Len(sends)
    /\ sends[n].pc = "prepare"
    /\ LET processedContent == processFileReferences(contentToSend(sends[n].content))
       IN  IF outcome # None
           THEN SendCatch(n, outcome[1], <<>>)
           ELSE /\ trace' = Append(trace,
                      NewSession(prepareFirstMessageWithSkillsIndex(processedContent)))
                /\ sends' = [sends EXCEPT ![n].pc = "newSession"]
                /\ UNCHANGED processing
    /\ UNCHANGED <<map, lastOp, bootstrap, requests, pendingConfirmations, patchChanges,
                   execRequestMeta, confirmations, calls, bootPc, agentAssigned,
                   bootError, isFirstMessage, awaiting, observed, outerVars>>

\* newSession or sendPrompt settled
CallDone(n, outcome) ==
    /\ n \in 1..Len(sends)
    /\ sends[n].pc \in {"newSession", "sendPrompt"}
    /\ IF outcome # None
       THEN SendCatch(n, outcome[1], <<>>)
       ELSE /\ sends' = [sends EXCEPT ![n].pc = "done"]
            /\ UNCHANGED <<trace, processing>>
    /\ UNCHANGED <<map, lastOp, bootstrap, requests, pendingConfirmations, patchChanges,
                   execRequestMeta, confirmations, calls, bootPc, agentAssigned,
                   bootError, isFirstMessage, awaiting, observed, outerVars>>

(***************************************************************************)
(* SpecSession: the bootstrap step by step, with sendMessage and confirm   *)
(* called at any moment                                                    *)
(***************************************************************************)

\* Most invocations of sendMessage
MaxSends == 2

\* Most invocations of confirm
MaxConfirms == 1

ConfirmCallers ==
    Cardinality({n \in 1..Len(awaiting) : awaiting[n].kind = "confirm"})
    + Cardinality({n \in 1..Len(observed) : observed[n].caller.kind = "confirm"})

SessionNext ==
    \/ IdentityConfigured
    \/ \E read \in Outcomes(BootErrors), constructed \in Outcomes(BootErrors) :
           ConfigRead(read, constructed)
    \/ \E outcome \in Outcomes(BootErrors) : StartSessionDone(outcome)
    \/ \E outcome \in Outcomes(BootErrors), first \in Outcomes(DiagnosticsErrors) :
           \E second \in {None, first} : AgentStartDone(outcome, first, second)
    \/ \E content \in Contents : Len(sends) < MaxSends /\ SendMessage(content)
    \/ ConfirmCallers < MaxConfirms /\ ConfirmCall(<<"permission_", "c1">>, "allow_always")
    \/ \E refs \in Outcomes(SendErrors) : Resume(refs)
    \/ \E n \in 1..Len(sends), outcome \in Outcomes(SendErrors) : PrepareDone(n, outcome)
    \/ \E n \in 1..Len(sends), outcome \in Outcomes(SendErrors) : CallDone(n, outcome)

SpecSession == Init /\ [][SessionNext]_vars

(***************************************************************************)
(* CodexAgentManager.emitAndPersistMessage and handleNetworkError          *)
(***************************************************************************)

\* this.conversation_id
ConversationId == "conv-1"

\* IResponseMessage: type, conversation_id, data
ResponseMessage(type, data) == [type |-> type, conversation_id |-> Undefined, data |-> data]

\* Messages the event handlers hand to emitAndPersistMessage
ResponseMessages ==
    { ResponseMessage("content", "text"), ResponseMessage("thought", "text"),
      ResponseMessage("preview_open", "url"), ResponseMessage("error", "text") }

\* handlePreviewOpenEvent(message): true for the navigation interception shape
handlePreviewOpenEvent(message) == message.type = "preview_open"

\* Message types without a durable form
TransientTypes == {"thought", "preview_open"}

\* transformMessage(message): the durable record, or nothing
transformMessage(message) ==
    IF message.type \in TransientTypes THEN None
    ELSE Some([ type |-> message.type, conversation_id |-> message.conversation_id,
                content |-> message.data ])

\* The collaborator calls of the funnel; one of them may throw
Failures == {"none", "transformMessage", "addMessage", "emit"}

\* What one run of the funnel did: the collaborator calls it made, in order,
\* what was written and forwarded, and the call whose error left the method
Outcome(made, written, emitted, thrown) ==
    [made |-> made, written |-> written, emitted |-> emitted, thrown |-> thrown]

\* a funnel that forwards before it looks at the message
emitAndPersistMessageForwardFirst(message, persist, failing) ==
    LET m == [message EXCEPT !.conversation_id = ConversationId]
    IN  Outcome(<<"emit">>, <<>>, <<m>>, None)

\* emitAndPersistMessage(message, persist)
emitAndPersistMessage(message, persist, failing) ==
    LET m == [message EXCEPT !.conversation_id = ConversationId]
        t == transformMessage(m)
    IN  IF handlePreviewOpenEvent(m) THEN Outcome(<<>>, <<>>, <<>>, None)
        ELSE IF ~persist
        THEN IF failing = "emit" THEN Outcome(<<"emit">>, <<>>, <<>>, Some("emit"))
             ELSE Outcome(<<"emit">>, <<>>, <<m>>, None)
        ELSE IF failing = "transformMessage"
        THEN Outcome(<<"transformMessage">>, <<>>, <<>>, Some("transformMessage"))
        ELSE IF t = None
        THEN IF failing = "emit"
             THEN Outcome(<<"transformMessage", "emit">>, <<>>, <<>>, Some("emit"))
             ELSE Outcome(<<"transformMessage", "emit">>, <<>>, <<m>>, None)
        ELSE IF failing = "addMessage"
        THEN Outcome(<<"transformMessage", "addMessage">>, <<>>, <<>>, Some("addMessage"))
        ELSE IF failing = "emit"
        THEN Outcome(<<"transformMessage", "addMessage", "emit">>, t, <<>>, Some("emit"))
        ELSE Outcome(<<"transformMessage", "addMessage", "emit">>, t, <<m>>, None)

\* An event handler calls emitAndPersistMessage
EmitAndPersistMessage(message, persist, failing) ==
    LET done == emitAndPersistMessage(message, persist, failing)
    IN  /\ dispatches' = Append(dispatches,
              [ op |-> "emitAndPersistMessage", message |-> message, persist |-> persist,
                failing |-> failing, made |-> done.made, written |-> done.written,
                emitted |-> done.emitted, thrown |-> done.thrown ])
        /\ persisted' = persisted \o done.written
        /\ forwarded' = forwarded \o done.emitted
        /\ UNCHANGED <<map, lastOp, bootstrap, requests, pendingConfirmations,
                       patchChanges, execRequestMeta, confirmations, calls, bootPc,
                       agentAssigned, bootError, trace, isFirstMessage, processing,
                       sends, awaiting, observed, teardown, acpVars, agentConfig>>

\* NetworkError.type: the three the handler names, and others
NetworkErrorTypes ==
    {"cloudflare_blocked", "network_timeout", "connection_refused", "unknown", "dns_failure"}

\* Lengths of NetworkError.originalError
ErrorLengths == {12, 200, 201}

\* NetworkError: type, retryCount, originalError (its length)
NetworkErrors ==
    { [type |-> t, retryCount |-> 3, originalError |-> [length |-> n]] :
          t \in NetworkErrorTypes, n \in ErrorLengths }

\* i18n.t(key)
T(key) == <<"i18n.t", key>>

\* switch (error.type): userMessage
userMessage(type) ==
    CASE type = "cloudflare_blocked" -> T("codex.network.cloudflare_blocked_title")
      [] type = "network_timeout" -> T("codex.network.network_timeout_title")
      [] type = "connection_refused" -> T("codex.network.connection_refused_title")
      [] OTHER -> T("codex.network.unknown_error_title")

\* switch (error.type): recoveryActions
recoveryActions(type) ==
    CASE type = "cloudflare_blocked" -> T("codex.network.recovery_actions.cloudflare_blocked")
      [] type = "network_timeout" -> T("codex.network.recovery_actions.network_timeout")
      [] type = "connection_refused" -> T("codex.network.recovery_actions.connection_refused")
      [] OTHER -> T("codex.network.recovery_actions.unknown")

\* The longest piece of originalError the message shows
ErrorDetailLimit == 200

\* the detail without the cut
errorDetailsWhole(originalError) ==
    [length |-> originalError.length, ellipsis |-> FALSE]

\* originalError.substring(0, 200), and '...' when the error is longer
errorDetails(originalError) ==
    [ length |-> IF originalError.length > ErrorDetailLimit THEN ErrorDetailLimit
                 ELSE originalError.length,
      ellipsis |-> originalError.length > ErrorDetailLimit ]

\* detailedMessage: title, suggestions, technical information
detailedMessage(error) ==
    [ title |-> userMessage(error.type),
      suggestions |-> recoveryActions(error.type),
      errorType |-> error.type,
      retryCount |-> error.retryCount,
      errorDetails |-> errorDetails(error.originalError) ]

\* networkErrorMessage
networkErrorMessage(error) ==
    [ type |-> "tips", conversation_id |-> ConversationId,
      data |-> [ error |-> error, title |-> userMessage(error.type),
                 message |-> detailedMessage(error),
                 recoveryActions |-> recoveryActions(error.type),
                 quickSwitchContent |-> T("codex.network.quick_switch_content") ] ]

\* emitStatus(status): the status message handed to emitAndPersistMessage
statusMessage(status) ==
    [ type |-> "agent_status", conversation_id |-> ConversationId,
      data |-> [backend |-> "codex", status |-> status] ]

\* handleNetworkError(error): emitStatus('error'), which goes through
\* emitAndPersistMessage and ends the handler when that throws; then the tips
\* message is transformed, written and emitted
handleNetworkError(error, failing) ==
    LET status  == emitAndPersistMessage(statusMessage("error"), TRUE, failing)
        message == networkErrorMessage(error)
        t       == transformMessage(message)
    IN  IF status.thrown # None THEN status
        ELSE Outcome(status.made \o <<"transformMessage">>
                         \o (IF t # None THEN <<"addMessage">> ELSE <<>>) \o <<"emit">>,
                     status.written \o t,
                     status.emitted \o <<message>>,
                     None)

\* The agent's transport reports a network error through onNetworkError
HandleNetworkError(error, failing) ==
    LET done == handleNetworkError(error, failing)
    IN  /\ agentAssigned
        /\ dispatches' = Append(dispatches,
              [ op |-> "handleNetworkError", message |-> error, persist |-> TRUE,
                failing |-> failing, made |-> done.made, written |-> done.written,
                emitted |-> done.emitted, thrown |-> done.thrown ])
        /\ persisted' = persisted \o done.written
        /\ forwarded' = forwarded \o done.emitted
        /\ UNCHANGED <<map, lastOp, bootstrap, requests, pendingConfirmations,
                       patchChanges, execRequestMeta, confirmations, calls, bootPc,
                       agentAssigned, bootError, trace, isFirstMessage, processing,
                       sends, awaiting, observed, teardown, acpVars, agentConfig>>

(***************************************************************************)
(* SpecDispatch: messages through the funnel and network errors, in any    *)
(* order                                                                   *)
(***************************************************************************)

\* Most invocations of emitAndPersistMessage and handleNetworkError together
MaxDispatches == 2

DispatchNext ==
    \/ BootstrapResolve
    \/ \E message \in ResponseMessages, persist \in BOOLEAN, failing \in Failures :
           Len(dispatches) < MaxDispatches /\ EmitAndPersistMessage(message, persist, failing)
    \/ \E error \in NetworkErrors, failing \in Failures :
           Len(dispatches) < MaxDispatches /\ HandleNetworkError(error, failing)

SpecDispatch == Init /\ [][DispatchNext]_vars

(***************************************************************************)
(* SpecSendFailure: sendMessage whose awaited calls reject with values of  *)
(* every kind the catch block tells apart                                  *)
(***************************************************************************)

SendFailureNext ==
    \/ IdentityConfigured
    \/ \E read \in Outcomes(BootErrors) : ConfigRead(read, None)
    \/ StartSessionDone(None)
    \/ AgentStartDone(None, None, None)
    \/ Len(sends) < MaxSends /\ SendMessage(<<"hello">>)
    \/ \E refs \in Outcomes(SendFailures) : Resume(refs)
    \/ \E n \in 1..Len(sends), outcome \in Outcomes(SendFailures) : PrepareDone(n, outcome)
    \/ \E n \in 1..Len(sends), outcome \in Outcomes(SendFailures) : CallDone(n, outcome)

SpecSendFailure == Init /\ [][SendFailureNext]_vars

(***************************************************************************)
(* CodexAgentManager.cleanup                                               *)
(***************************************************************************)

\* What reading a property of the unassigned this.agent throws
AgentUndefined == <<"TypeError: ", "Cannot read properties of undefined">>

\* Errors agent.stop() rejects with
StopErrors == { <<"kill ESRCH">> }

HandlerCleanup(handler) == <<"cleanup", handler>>

AgentStop == <<"stop", "codex">>

\* Lines 683-685, and the stop call of line 688
cleanupCalls ==
    << HandlerCleanup("eventHandler"), HandlerCleanup("sessionManager"),
       HandlerCleanup("fileOperationHandler"), AgentStop >>

\* The tool handlers after the event handler's cleanup: no pending record is
\* left, nor the metadata and change sets kept with them
drained == [pending |-> {}, changes |-> EmptyMap, meta |-> EmptyMap]

\* The approval store after teardown: clear() has been called on it
storeAfterTeardown(m) == clear(m)

\* a stop whose rejection reaches the caller
stopRejectedUncaught(e) == [logged |-> <<>>, thrown |-> Some(e)]

\* .catch((error) => console.error('Failed to stop Codex agent during cleanup:', error))
stopRejected(e) == [logged |-> <<e>>, thrown |-> None]

\* cleanup(), to its return: it throws at line 683 while this.agent is
\* unassigned; otherwise the handlers are cleaned up, the store is cleared
\* and stop is called, its promise left to settle
Cleanup ==
    /\ teardown.pc = "none"
    /\ IF ~agentAssigned
       THEN /\ teardown' = [teardown EXCEPT !.pc = "threw", !.thrown = Some(AgentUndefined)]
            /\ UNCHANGED <<map, pendingConfirmations, patchChanges, execRequestMeta, trace>>
       ELSE /\ pendingConfirmations' = drained.pending
            /\ patchChanges' = drained.changes
            /\ execRequestMeta' = drained.meta
            /\ map' = storeAfterTeardown(map)
            /\ trace' = trace \o cleanupCalls
            /\ teardown' = [teardown EXCEPT !.pc = "stopping"]
    /\ UNCHANGED <<lastOp, bootstrap, requests, confirmations, calls, bootPc,
                   agentAssigned, bootError, isFirstMessage, processing, sends,
                   awaiting, observed, dispatchVars, acpVars, agentConfig>>

\* The promise of agent.stop() settles
StopSettled(outcome) ==
    /\ teardown.pc = "stopping"
    /\ IF outcome = None
       THEN teardown' = [teardown EXCEPT !.pc = "stopped", !.stop = "resolved"]
       ELSE teardown' = [teardown EXCEPT !.pc = "stopped", !.stop = "rejected",
                                         !.logged = @ \o stopRejected(outcome[1]).logged,
                                         !.thrown = stopRejected(outcome[1]).thrown]
    /\ UNCHANGED <<map, lastOp, bootstrap, requests, pendingConfirmations, patchChanges,
                   execRequestMeta, confirmations, calls, bootPc, agentAssigned,
                   bootError, trace, isFirstMessage, processing, sends, awaiting,
                   observed, dispatchVars, acpVars, agentConfig>>

(***************************************************************************)
(* SpecTeardown: a session with requests and decisions, torn down at any   *)
(* moment                                                                  *)
(***************************************************************************)

TeardownData == {"allow_once", "allow_always", "reject_always"}

TeardownNext ==
    \/ BootstrapResolve
    \/ \E req \in Requests :
           teardown.pc = "none" /\ Len(calls) < MaxCalls /\ Raise(req, MaxRequests)
    \/ \E callId \in confirmations, data \in TeardownData :
           Len(calls) < MaxCalls /\ Confirm(callId, data)
    \/ \E i \in 1..Len(calls) : ApplyOk(i)
    \/ \E i \in 1..Len(calls), e \in ApplyErrors : ApplyFail(i, e)
    \/ Cleanup
    \/ \E outcome \in Outcomes(StopErrors) : StopSettled(outcome)

SpecTeardown == Init /\ [][TeardownNext]_vars

(***************************************************************************)
(* AcpApprovalStore (src/src/agent/acp/ApprovalStore.ts)                   *)
(***************************************************************************)

\* AcpApprovalKey: kind, title, rawInput (absent, or an object)
AcpApprovalKey(kind, title, rawInput) ==
    [kind |-> kind, title |-> title, rawInput |-> rawInput]

\* rawInput: command, path, file_path and description, each possibly absent
RawInput(command, path, file_path, description) ==
    [ command |-> command, path |-> path, file_path |-> file_path,
      description |-> description ]

\* A value an `if (v)` or `v || d` takes for absent
Falsy(v) == v = Undefined \/ v = ""

\* key.kind || 'unknown', key.title || ''
OrDefault(v, d) == IF Falsy(v) THEN d ELSE v

\* createAcpApprovalKey(toolCall)
createAcpApprovalKey(toolCall) ==
    AcpApprovalKey(OrDefault(toolCall.kind, "unknown"), OrDefault(toolCall.title, ""),
                   toolCall.rawInput)

\* normalizedInput: the fields of rawInput the key keeps
normalizedInput(rawInput) ==
    IF rawInput = None THEN [f \in {} |-> Undefined]
    ELSE [ f \in {g \in {"command", "path", "file_path"} : ~Falsy(rawInput[1][g])}
             |-> rawInput[1][f] ]

\* a serialization that keeps the whole rawInput
acpSerializeKeyWithRawInput(key) ==
    << OrDefault(key.kind, "unknown"), OrDefault(key.title, ""), key.rawInput >>

\* serializeKey(key): JSON.stringify({kind, title, rawInput: normalizedInput})
acpSerializeKey(key) ==
    << OrDefault(key.kind, "unknown"), OrDefault(key.title, ""),
       normalizedInput(key.rawInput) >>

\* AcpApprovalStore.get
acpGet(m, key) ==
    IF acpSerializeKey(key) \in DOMAIN m THEN m[acpSerializeKey(key)] ELSE Undefined

\* a put that stores whatever option it is given
acpPutAnyOption(m, key, optionId) ==
    [ s \in (DOMAIN m) \cup {acpSerializeKey(key)} |->
        IF s = acpSerializeKey(key) THEN optionId ELSE m[s] ]

\* AcpApprovalStore.put
acpPut(m, key, optionId) ==
    IF optionId = "allow_always"
    THEN [ s \in (DOMAIN m) \cup {acpSerializeKey(key)} |->
             IF s = acpSerializeKey(key) THEN optionId ELSE m[s] ]
    ELSE m

\* AcpApprovalStore.isApprovedForSession
acpIsApprovedForSession(m, key) == acpGet(m, key) = "allow_always"

\* AcpApprovalStore.clear
acpClear(m) == [s \in {} |-> ""]

\* AcpApprovalStore.size
acpSize(m) == Cardinality(DOMAIN m)

(***************************************************************************)
(* SpecAcp: the ACP store driven directly                                  *)
(***************************************************************************)

\* Most entries of the ACP store
MaxAcpEntries == 2

AcpKinds == {"", "unknown", "execute"}

AcpTitles == {"", "Run"}

AcpRawInputs ==
    { None,
      Some(RawInput("ls", Undefined, Undefined, Undefined)),
      Some(RawInput("ls", Undefined, Undefined, "list files")),
      Some(RawInput("", Undefined, Undefined, "list files")),
      Some(RawInput(Undefined, "/a", Undefined, Undefined)),
      Some(RawInput(Undefined, Undefined, "/a", Undefined)),
      Some(RawInput("ls", "/a", Undefined, "list files")) }

\* Tool calls of permission requests: kind and title may be missing
AcpToolCalls ==
    { [kind |-> k, title |-> t, rawInput |-> r] :
          k \in AcpKinds \cup {Undefined}, t \in AcpTitles \cup {Undefined},
          r \in AcpRawInputs }

AcpKeys ==
    { AcpApprovalKey(k, t, r) : k \in AcpKinds, t \in AcpTitles, r \in AcpRawInputs }
    \cup { createAcpApprovalKey(toolCall) : toolCall \in AcpToolCalls }

\* Keys the session stores decisions under
AcpPutKeys ==
    { AcpApprovalKey(k, "Run", r) :
          k \in {"", "execute"},
          r \in { None,
                  Some(RawInput("ls", Undefined, Undefined, Undefined)),
                  Some(RawInput("", Undefined, Undefined, "list files")),
                  Some(RawInput(Undefined, "/a", Undefined, Undefined)) } }

AcpOptionIds == {"allow_once", "allow_always", "reject_once", "reject_always", "later"}

AcpUnchanged ==
    UNCHANGED <<map, lastOp, bootstrap, requests, pendingConfirmations, patchChanges,
                execRequestMeta, confirmations, calls, bootPc, agentAssigned,
                bootError, trace, isFirstMessage, processing, sends, awaiting,
                observed, dispatchVars, teardown, agentConfig>>

AcpPut(key, optionId) ==
    /\ acpSize(acpPut(acpMap, key, optionId)) <= MaxAcpEntries
    /\ acpMap' = acpPut(acpMap, key, optionId)
    /\ acpLastOp' = [ op |-> "put", key |-> key, optionId |-> optionId,
                      fresh |-> acpSize(acpMap) = 0 ]
    /\ AcpUnchanged

\* isApprovedForSession(key), asked right after the first put into an empty store
AcpIsApprovedForSession(key) ==
    /\ acpLastOp.op = "put" /\ acpLastOp.fresh
    /\ acpLastOp' = [ op |-> "isApprovedForSession", key |-> key,
                      result |-> acpIsApprovedForSession(acpMap, key),
                      putKey |-> acpLastOp.key, putOptionId |-> acpLastOp.optionId ]
    /\ UNCHANGED acpMap
    /\ AcpUnchanged

AcpClear ==
    /\ acpMap' = acpClear(acpMap)
    /\ acpLastOp' = [op |-> "clear"]
    /\ AcpUnchanged

AcpNext ==
    \/ \E key \in AcpPutKeys, optionId \in AcpOptionIds : AcpPut(key, optionId)
    \/ \E key \in AcpKeys : AcpIsApprovedForSession(key)
    \/ AcpClear

SpecAcp == Init /\ [][AcpNext]_vars

(***************************************************************************)
(* SpecCallIds: requests whose call ids carry none, one or two prefixes    *)
(***************************************************************************)

\* The prefixes a call id reaches confirm with; the backend's own id may
\* itself begin with one of them
CallIdPrefixes ==
    { <<>>, <<"permission_">>, <<"patch_">>, <<"elicitation_">>, <<"exec_">>,
      <<"permission_", "patch_">>, <<"exec_", "permission_">> }

PrefixedRequests ==
    { ExecRequest(prefix, <<"str", "ls">>, "/work", "Run ls") : prefix \in CallIdPrefixes }

CallIdData == {"allow_once", "reject_once"}

CallIdsNext ==
    \/ BootstrapResolve
    \/ \E req \in PrefixedRequests : Raise(req, MaxRequests)
    \/ \E callId \in confirmations, data \in CallIdData : Confirm(callId, data)

SpecCallIds == Init /\ [][CallIdsNext]_vars

(***************************************************************************)
(* initAgent: the fully-automatic (yolo) mode handed to the agent          *)
(***************************************************************************)

\* JavaScript's null
Null == "<null>"

\* a ?? b
NullishCoalesce(a, b) == IF a = Undefined \/ a = Null THEN b ELSE a

\* codexConfig?.yoloMode, codexConfig being None when ProcessConfig has none
configYoloMode(codexConfig) ==
    IF codexConfig = None THEN Undefined ELSE codexConfig[1].yoloMode

\* the mode taken from the configuration whenever it has one
yoloModeConfigFirst(data, codexConfig) ==
    NullishCoalesce(configYoloMode(codexConfig), data.yoloMode)

\* const yoloMode = data.yoloMode ?? codexConfig?.yoloMode
yoloMode(data, codexConfig) ==
    NullishCoalesce(data.yoloMode, configYoloMode(codexConfig))

\* data.yoloMode of the constructor data: a boolean, or not given
ManagerData == { [yoloMode |-> v] : v \in {Undefined, Null, "true", "false"} }

\* What ProcessConfig.get('codex.config') resolves with
CodexConfigs == {None} \cup { Some([yoloMode |-> v]) : v \in {Undefined, "true", "false"} }

\* ProcessConfig.get settled (lines 342-360), with the constructor data and
\* the configuration it resolved with: the agent is constructed and
\* startWithSessionManagement is entered
ConfigReadWith(read, data, codexConfig) ==
    /\ bootstrap = "pending" /\ bootPc = "config"
    /\ IF read # None
       THEN Rejected(<<>>, FALSE, read[1]) /\ UNCHANGED <<agentAssigned, agentConfig>>
       ELSE /\ agentAssigned' = TRUE
            /\ agentConfig' = Some([ data |-> data, codexConfig |-> codexConfig,
                                     yoloMode |-> yoloMode(data, codexConfig) ])
            /\ trace' = trace \o <<NewCodexAgent, StartSession("begin")>>
            /\ bootPc' = "startSession"
            /\ UNCHANGED <<bootstrap, bootError>>
    /\ UNCHANGED <<map, lastOp, requests, pendingConfirmations, patchChanges,
                   execRequestMeta, confirmations, calls, isFirstMessage, processing,
                   sends, awaiting, observed, dispatchVars, teardown, acpVars>>

InitAgentNext ==
    \/ IdentityConfigured
    \/ \E read \in Outcomes(BootErrors), data \in ManagerData, codexConfig \in CodexConfigs :
           ConfigReadWith(read, data, codexConfig)
    \/ \E outcome \in Outcomes(BootErrors) : StartSessionDone(outcome)
    \/ \E outcome \in Outcomes(BootErrors), first \in Outcomes(DiagnosticsErrors) :
           \E second \in {None, first} : AgentStartDone(outcome, first, second)

SpecInitAgent == Init /\ [][InitAgentNext]_vars

(***************************************************************************)
(* Properties                                                              *)
(***************************************************************************)

Calls == 1..Len(calls)

Effects(i) == 1..Len(calls[i].effects)

HasEffect(i, e) == \E j \in Effects(i) : calls[i].effects[j] = e

Settled(i) == calls[i].pc \in {"done", "failed"}

RequestIn(reqs, callId) == CHOOSE r \in {reqs[n] : n \in 1..Len(reqs)} : r.callId = callId

RequestOf(callId) == RequestIn(requests, callId)

\* C1: every confirm that has run to its end, the one whose approved patch
\* failed to apply included, has sent respondElicitation(normalizedId,
\* decision) and then resolvePermission(normalizedId, ...); no gate release
\* comes before, or without, the acknowledgement of the same id.
C1_AcknowledgedThenReleased ==
    \A i \in Calls :
        LET e    == calls[i].effects
            orig == normalizeCallId(calls[i].callId)
        IN  /\ Settled(i) =>
                 \E j \in Effects(i) :
                     /\ j > 1
                     /\ e[j - 1] = RespondElicitation(orig, calls[i].decision)
                     /\ e[j][1] = "resolvePermission" /\ e[j][2] = orig
            /\ \A j \in Effects(i) :
                 e[j][1] = "resolvePermission" =>
                     /\ j > 1
                     /\ e[j - 1][1] = "respondElicitation"
                     /\ e[j - 1][2] = e[j][2]

\* C2: per call id the acknowledgement and the gate release are each issued
\* at most once, however often confirm is called for it.
C2_ResolvedOncePerCallId ==
    \A callId \in RaisedCallIds :
        LET orig == normalizeCallId(callId)
        IN  /\ Cardinality({i \in Calls : calls[i].callId = callId /\
                    \E j \in Effects(i) : calls[i].effects[j][1] = "respondElicitation"}) <= 1
            /\ Cardinality({i \in Calls : calls[i].callId = callId /\
                    \E j \in Effects(i) : calls[i].effects[j][1] = "resolvePermission"}) <= 1

\* C3: per call id applyBatchChanges is dispatched at most once over all
\* confirm and autoConfirm calls, and the pending record of the call id is
\* gone when it is dispatched.
C3_AppliedOncePerCallId ==
    \A callId \in RaisedCallIds :
        /\ Cardinality({i \in Calls : HasEffect(i, ApplyDispatched(callId))}) <= 1
        /\ (\E i \in Calls : HasEffect(i, ApplyDispatched(callId)))
               => callId \notin pendingConfirmations

\* C4: confirm hands the change set of its call id to applyBatchChanges
\* exactly when the decision is approved or approved_for_session and a change
\* set exists for the call id; a denied or abort decision applies nothing;
\* and an apply that succeeded is followed by the patch_applied event.
C4_AppliesIffApprovedWithChanges ==
    \A i \in Calls :
        LET c       == calls[i]
            applied == HasEffect(i, ApplyDispatched(c.callId))
        IN  /\ applied <=> (/\ c.decision \in {"approved", "approved_for_session"}
                            /\ c.callId \in DOMAIN patchChanges)
            /\ c.decision \in {"denied", "abort"} => ~applied
            /\ (applied /\ c.pc = "done") =>
                   \E j \in Effects(i) :
                       /\ j > 1
                       /\ c.effects[j - 1] = ApplyDispatched(c.callId)
                       /\ c.effects[j] = PatchApplied(c.callId)

\* C4's case: an allowed patch was applied and reported, and a rejected
\* decision for a call id that has a change set applied nothing
C4_PatchAppliedAndPatchRefused ==
    /\ \E i \in Calls : calls[i].pc = "done" /\ HasEffect(i, PatchApplied(calls[i].callId))
    /\ \E i \in Calls :
           /\ calls[i].decision \in {"denied", "abort"}
           /\ calls[i].callId \in DOMAIN patchChanges

\* C5: the four option ids map by the fixed table and every other value of
\* data (unknown, empty, missing) resolves to denied.
C5_UnknownOptionIsDenied ==
    \A i \in Calls :
        IF calls[i].data \in PermissionOptionIds
        THEN calls[i].decision = PERMISSION_DECISION_MAP[calls[i].data]
        ELSE calls[i].decision = "denied"

SameExec(q, r) ==
    /\ q.kind = "exec" /\ r.kind = "exec"
    /\ q.command = r.command /\ q.cwd = r.cwd

Count(files, path) == Cardinality({n \in 1..Len(files) : files[n] = path})

SamePatch(q, r) ==
    /\ q.kind = "patch" /\ r.kind = "patch"
    /\ \A path \in Paths : Count(q.files, path) = Count(r.files, path)

\* The step is the arrival of one more permission request
Raised == Len(requests') = Len(requests) + 1

NewRequest == requests'[Len(requests')]

\* The step is one more invocation of confirm
Confirmed == Len(calls') = Len(calls) + 1

NewCall == calls'[Len(calls')]

\* The request was resolved without the user: confirm ran for it in the
\* arrival step, with the given option and decision, and nothing was surfaced
AutoResolved(option, decision) ==
    /\ NewRequest.outcome = option
    /\ NewRequest.callId \notin confirmations'
    /\ NewRequest.callId \notin pendingConfirmations'
    /\ Confirmed
    /\ NewCall.callId = NewRequest.callId /\ NewCall.data = option
    /\ NewCall.decision = decision
    /\ NewCall.pc \in {"done", "applying"}
    /\ NewCall.pc = "done" =>
           \E j \in 1..Len(NewCall.effects) :
               NewCall.effects[j] =
                   RespondElicitation(normalizeCallId(NewRequest.callId), decision)

\* Invocations of confirm that resolved a request for the same operation as r
\* with an always-option
AlwaysExecCalls(r) ==
    {i \in Calls : /\ calls[i].data \in {"allow_always", "reject_always"}
                   /\ SameExec(RequestOf(calls[i].callId).req, r)}

AlwaysPatchCalls(r) ==
    {i \in Calls : /\ calls[i].data \in {"allow_always", "reject_always"}
                   /\ SamePatch(RequestOf(calls[i].callId).req, r)}

Latest(S) == CHOOSE i \in S : \A k \in S : k <= i

ExecStoredOnAllowAlways ==
    (Confirmed /\ NewCall.data = "allow_always"
        /\ RequestIn(requests', NewCall.callId).req.kind = "exec")
    => LET q == RequestIn(requests', NewCall.callId).req
       IN  get(map', createExecApprovalKey(q.command, q.cwd)) = "approved_for_session"

\* C6 as stated: once an exec request with (c, w) was resolved with
\* allow_always, every later exec request with the same c and w is reported
\* approved and auto-resolved without being surfaced.
C6_EveryLaterExecAutoApproved ==
    [][ /\ ExecStoredOnAllowAlways
        /\ (Raised /\ \E i \in AlwaysExecCalls(NewRequest.req) :
                          calls[i].data = "allow_always")
           => /\ checkExecApproval(map, NewRequest.req.command, NewRequest.req.cwd)
              /\ AutoResolved("allow_always", "approved_for_session") ]_vars

\* C6 amended: an exec request resolved with allow_always leaves its (c, w)
\* signature mapped to approved_for_session, and a later exec request with the
\* same c and w, whatever its title, is reported approved and auto-resolved
\* without being surfaced, provided no reject_always for the same c and w was
\* resolved after that allow_always.
C6_LaterExecAutoApprovedUnlessRejected ==
    [][ /\ ExecStoredOnAllowAlways
        /\ (Raised /\ AlwaysExecCalls(NewRequest.req) # {}
                   /\ calls[Latest(AlwaysExecCalls(NewRequest.req))].data = "allow_always")
           => /\ checkExecApproval(map, NewRequest.req.command, NewRequest.req.cwd)
              /\ AutoResolved("allow_always", "approved_for_session") ]_vars

\* C6's case: the user allowed rm -rf tmp in /work for the session, and the
\* same command under another title was then approved without a dialog
C6_SecondExecAutoApproved ==
    \E n \in 1..Len(requests), k \in 1..Len(requests) :
        /\ k < n
        /\ SameExec(requests[k].req, requests[n].req)
        /\ requests[k].req.title # requests[n].req.title
        /\ requests[k].outcome = "surfaced"
        /\ requests[n].outcome = "allow_always"
        /\ \E i \in Calls : /\ calls[i].callId = requests[k].callId
                            /\ calls[i].id = "msg" /\ calls[i].data = "allow_always"
        /\ \E i \in Calls : /\ calls[i].callId = requests[n].callId
                            /\ calls[i].decision = "approved_for_session"
                            /\ calls[i].pc = "done"

\* C7 as stated: once a patch request was resolved with reject_always, every
\* later patch request touching the same files, in any order, is reported
\* rejected and auto-resolved as abort without being surfaced.
C7_EveryLaterPatchAutoRejected ==
    [][ (Raised /\ \E i \in AlwaysPatchCalls(NewRequest.req) :
                       calls[i].data = "reject_always")
        => /\ checkPatchRejection(map, NewRequest.req.files)
           /\ AutoResolved("reject_always", "abort") ]_vars

\* C7 amended: a later patch request touching the same files, in any order,
\* is reported rejected and auto-resolved as abort without being surfaced,
\* provided no allow_always for the same files was resolved after that
\* reject_always.
C7_LaterPatchAutoRejectedUnlessAllowed ==
    [][ (Raised /\ AlwaysPatchCalls(NewRequest.req) # {}
                /\ calls[Latest(AlwaysPatchCalls(NewRequest.req))].data = "reject_always")
        => /\ checkPatchRejection(map, NewRequest.req.files)
           /\ AutoResolved("reject_always", "abort") ]_vars

\* C7's case: the user rejected a patch of a.txt and b.txt for the session,
\* and a patch of the same files in the other order was aborted without a dialog
C7_ReorderedPatchAutoRejected ==
    \E n \in 1..Len(requests), k \in 1..Len(requests) :
        /\ k < n
        /\ SamePatch(requests[k].req, requests[n].req)
        /\ requests[k].req.files # requests[n].req.files
        /\ requests[k].outcome = "surfaced"
        /\ requests[n].outcome = "reject_always"
        /\ \E i \in Calls : /\ calls[i].callId = requests[k].callId
                            /\ calls[i].id = "msg" /\ calls[i].data = "reject_always"
        /\ \E i \in Calls : /\ calls[i].callId = requests[n].callId
                            /\ calls[i].decision = "abort"
                            /\ calls[i].pc = "done"
                            /\ ~HasEffect(i, ApplyDispatched(calls[i].callId))

\* C8: whatever put, putAll and clear calls were made, with whatever
\* decisions, every stored value is approved_for_session or abort.
C8_OnlyCacheableStored ==
    \A k \in DOMAIN map : map[k] \in {"approved_for_session", "abort"}

\* C8's case: the store holds both cacheable decisions and the last call
\* offered it a single-use one
C8_SingleUseOfferedToFilledStore ==
    /\ lastOp.op \in {"put", "putAll"}
    /\ lastOp.decision \in {"approved", "denied"}
    /\ {map[k] : k \in DOMAIN map} = {"approved_for_session", "abort"}

\* C9: put(k, approved) and put(k, denied) leave the whole store unchanged:
\* get returns for every key what it returned before.
C9_SingleUsePutChangesNothing ==
    [][ (lastOp'.op = "put" /\ lastOp'.decision \in {"approved", "denied"})
        => /\ map' = map
           /\ \A key \in StoreKeys : get(map', key) = get(map, key) ]_vars

\* C9's case: put(k, denied) on a store that holds other keys and not k
C9_DeniedPutOnAbsentKey ==
    /\ lastOp.op = "put" /\ lastOp.decision = "denied"
    /\ get(map, lastOp.key) = Undefined
    /\ map # EmptyMap

\* C10: after put(k, d) with d cacheable get(k) = d, and a put(k, d) on a
\* store in which k already maps to d leaves contents and size as they were.
C10_PutThenGet ==
    [][ (lastOp'.op = "put" /\ lastOp'.decision \in {"approved_for_session", "abort"})
        => /\ get(map', lastOp'.key) = lastOp'.decision
           /\ get(map, lastOp'.key) = lastOp'.decision
                  => (map' = map /\ size(map') = size(map)) ]_vars

\* C10's case: put(k, abort) over a key that held approved_for_session, given
\* as a file list the serialisation reorders
C10_CacheablePutRead ==
    /\ lastOp.op = "put" /\ lastOp.decision = "abort"
    /\ lastOp.key.type = "patch" /\ lastOp.key.files = <<"b.txt", "a.txt">>
    /\ get(map, createPatchApprovalKey(<<"a.txt", "b.txt">>)) = "abort"
    /\ size(map) = 2

\* Key lists allApprovedForSession is asked about
QueryKeys ==
    { createPatchApprovalKey(<<"a.txt">>),
      createPatchApprovalKey(<<"a.txt", "b.txt">>),
      createExecApprovalKey(<<"str", "ls">>, Undefined) }

CachedDecision(key) ==
    IF serializeKey(key) \in DOMAIN map THEN map[serializeKey(key)] ELSE Undefined

\* C11: allApprovedForSession(keys) is true exactly when keys is non-empty and
\* every key of it has the cached decision approved_for_session; for the empty
\* list it is false in every store state.
C11_AllApprovedIffNonEmptyAndEach ==
    /\ \A keys \in SeqsUpTo(QueryKeys, MaxKeys) :
           allApprovedForSession(map, keys)
               <=> /\ keys # <<>>
                   /\ \A i \in 1..Len(keys) :
                          CachedDecision(keys[i]) = "approved_for_session"
    /\ allApprovedForSession(map, <<>>) = FALSE

\* C11's case: a store in which a list of two keys is all approved, a list
\* holding a rejected key is not, and the empty list is not
C11_TwoKeysApprovedOneRejected ==
    /\ allApprovedForSession(map, << createPatchApprovalKey(<<"a.txt", "b.txt">>),
                                     createPatchApprovalKey(<<"b.txt", "a.txt">>) >>)
    /\ isRejectedForSession(map, createExecApprovalKey(<<"str", "ls">>, Undefined))
    /\ ~allApprovedForSession(map, << createPatchApprovalKey(<<"a.txt", "b.txt">>),
                                      createExecApprovalKey(<<"str", "ls">>, Undefined) >>)
    /\ ~allApprovedForSession(map, <<>>)

\* The last step read a key after a cacheable decision was put under another
ReadAfterPut(type) ==
    /\ lastOp.op = "get"
    /\ lastOp.putDecision \in {"approved_for_session", "abort"}
    /\ lastOp.putKey.type = type /\ lastOp.key.type = type

Hit == lastOp.result = lastOp.putDecision

IsPermutation(f, g) == \A path \in Paths : Count(f, path) = Count(g, path)

PathSet(files) == {files[n] : n \in 1..Len(files)}

\* C12: a decision put under a patch key is returned by get under the key of
\* every permutation of its file list.
C12_PermutedPatchKeyHits ==
    (ReadAfterPut("patch") /\ IsPermutation(lastOp.putKey.files, lastOp.key.files))
        => /\ Hit
           /\ serializeKey(lastOp.putKey) = serializeKey(lastOp.key)

\* C12's case: abort put under b.txt, a.txt, b.txt and read under b.txt, b.txt, a.txt
C12_ReorderedListRead ==
    /\ ReadAfterPut("patch")
    /\ lastOp.putKey.files = <<"b.txt", "a.txt", "b.txt">>
    /\ lastOp.key.files = <<"b.txt", "b.txt", "a.txt">>
    /\ lastOp.result = "abort"

\* C13: two patch keys address the same store entry exactly when their path
\* sets are equal, lists with a repeated path included.
C13_SameEntryIffSamePathSet ==
    ReadAfterPut("patch")
        => (Hit <=> PathSet(lastOp.putKey.files) = PathSet(lastOp.key.files))

CommandTokens(command) == IF command[1] = "str" THEN <<command[2]>> ELSE command[2]

CwdText(cwd) == IF cwd = Undefined THEN "" ELSE cwd

\* C14: two exec keys address the same store entry exactly when their command
\* token sequences are equal (a string being the one-token sequence of itself)
\* and their working directories are equal (an absent one being the empty one).
C14_SameEntryIffSameTokensAndCwd ==
    ReadAfterPut("exec")
        => (Hit <=> /\ CommandTokens(lastOp.putKey.command) = CommandTokens(lastOp.key.command)
                    /\ CwdText(lastOp.putKey.cwd) = CwdText(lastOp.key.cwd))

\* C14's case: a decision put for the string ls without cwd is read for the
\* array [ls] with the empty cwd
C14_StringCommandReadAsArray ==
    /\ ReadAfterPut("exec")
    /\ lastOp.putKey = createExecApprovalKey(<<"str", "ls">>, Undefined)
    /\ lastOp.key = createExecApprovalKey(<<"arr", <<"ls">>>>, "")
    /\ lastOp.result = "approved_for_session"

HasTitle(key) == "title" \in DOMAIN key

\* C15: two exec keys made for requests with the same command and cwd and
\* different titles serialize to the same cache key, so a decision put under
\* one is read under the other.
C15_TitleNotInKey ==
    ( /\ ReadAfterPut("exec")
      /\ HasTitle(lastOp.putKey) /\ HasTitle(lastOp.key)
      /\ lastOp.putKey.command = lastOp.key.command
      /\ lastOp.putKey.cwd = lastOp.key.cwd )
        => /\ serializeKey(lastOp.putKey) = serializeKey(lastOp.key)
           /\ Hit

\* C15's case: approved_for_session put for "Run ls" is read for "List files"
C15_OtherTitleRead ==
    /\ ReadAfterPut("exec")
    /\ HasTitle(lastOp.putKey) /\ HasTitle(lastOp.key)
    /\ lastOp.putKey.title = "Run ls" /\ lastOp.key.title = "List files"
    /\ lastOp.putKey.command = lastOp.key.command
    /\ lastOp.putKey.cwd = lastOp.key.cwd
    /\ lastOp.result = "approved_for_session"

Trace == 1..Len(trace)

\* Positions of the calls with the given name and second component
At(name, what) == {n \in Trace : trace[n][1] = name /\ trace[n][2] = what}

Named(name) == {n \in Trace : trace[n][1] = name}

Observed == 1..Len(observed)

\* C16: the bootstrap sequence runs at most once: no step of it is started a
\* second time, whatever sendMessage and confirm calls are made; every caller
\* that got past `await this.bootstrap` did so after the promise settled and
\* found its one outcome, the agent or the error it was rejected with.
C16_BootstrapOnceSameOutcome ==
    /\ Cardinality(Named("setAppConfig")) <= 1
    /\ Cardinality(Named("ProcessConfig.get")) <= 1
    /\ Cardinality(Named("new CodexAgent")) <= 1
    /\ Cardinality(At("startSession", "begin")) <= 1
    /\ Cardinality(At("start", "begin")) <= 1
    /\ \A n \in Observed :
          /\ bootstrap # "pending"
          /\ observed[n].found.ok <=> bootstrap = "resolved"
          /\ observed[n].found.error = bootError
          /\ observed[n].found.ok => agentAssigned
    /\ \A n \in 1..Len(sends) :
          sends[n].pc # "bootstrap" => \E k \in Observed : observed[k].caller.n = n

\* C16's case: startSession failed, and a sendMessage and a confirm both
\* found that error when their await returned
C16_SendAndConfirmFoundSameFailure ==
    /\ bootstrap = "rejected"
    /\ bootError = <<"connect ", "timed out">>
    /\ At("startSession", "begin") # {}
    /\ At("start", "begin") = {}
    /\ \E n \in Observed, k \in Observed :
          /\ observed[n].caller.kind = "sendMessage"
          /\ observed[k].caller.kind = "confirm"
          /\ observed[n].found = [ok |-> FALSE, error |-> bootError]
          /\ observed[k].found = observed[n].found

\* Every call at a position of later is preceded by a call at a position of earlier
Precedes(earlier, later) == \A n \in later : \E k \in earlier : k < n

Reached(route) == {n \in 1..Len(sends) : sends[n].route = route}

\* C17: the client identity is configured before startSession is called,
\* startSession has completed before agent.start is called, agent.start has
\* completed before post-connection setup runs, and newSession is called only
\* for a user message, after the bootstrap has resolved.
C17_BootstrapStepsInOrder ==
    /\ Precedes(Named("setAppConfig"), At("startSession", "begin"))
    /\ Precedes(At("startSession", "begin"), At("startSession", "end"))
    /\ Precedes(At("startSession", "end"), At("start", "begin"))
    /\ Precedes(At("start", "begin"), At("start", "end"))
    /\ Precedes(At("start", "end"), Named("getDiagnostics"))
    /\ Precedes(Named("getDiagnostics"), Named("newSession"))
    /\ Named("newSession") # {} => bootstrap = "resolved"
    /\ Cardinality(Named("newSession")) <= Cardinality(Reached("newSession"))
    /\ bootPc = "done" /\ bootstrap = "resolved" =>
          /\ At("start", "end") # {}
          /\ Named("getDiagnostics") # {}

\* C17's case: the bootstrap ran through all its steps and the first user
\* message then created the session
C17_SessionCreatedAfterBootstrap ==
    /\ bootstrap = "resolved"
    /\ \E n \in Named("newSession") : \A k \in Named("getDiagnostics") : k < n
    /\ \E n \in 1..Len(sends) : sends[n].route = "newSession" /\ sends[n].pc = "done"

\* C18: when the bootstrap promise is rejected, whichever step threw, a
\* bootstrap_failed session event carrying the error message has been emitted,
\* every awaiter finds that same error, and no step was started again.
C18_FailureEmittedAndRaised ==
    bootstrap = "rejected" =>
        /\ \E n \in Named("emitSessionEvent") :
              /\ trace[n][2] = "bootstrap_failed"
              /\ trace[n][3] = [error |-> bootError]
        /\ \A n \in Observed : observed[n].found = [ok |-> FALSE, error |-> bootError]
        /\ Cardinality(Named("ProcessConfig.get")) <= 1
        /\ Cardinality(At("startSession", "begin")) <= 1
        /\ Cardinality(At("start", "begin")) <= 1

\* The getDiagnostics call of post-connection setup threw e
DiagnosticsThrew(e) ==
    /\ Named("getDiagnostics") # {}
    /\ \A n \in Named("getDiagnostics") :
          (\A k \in Named("getDiagnostics") : n <= k) => trace[n][2] = Some(e)

Suggests(payload, text) ==
    \E n \in 1..Len(payload.suggestions) : payload.suggestions[n] = text

\* C19: when the diagnostics call of post-connection setup throws, the
\* bootstrap still resolves: a session_partial event carries the error, the
\* diagnostics and the suggestions (for 'timed out': the CLI installation and
\* authentication checks), no bootstrap_failed event is emitted, and
\* sendMessage calls get past the bootstrap await.
C19_DiagnosticsFailureDegrades ==
    \A e \in DiagnosticsErrors :
        DiagnosticsThrew(e) =>
            /\ bootstrap = "resolved"
            /\ \E n \in Named("emitSessionEvent") :
                  /\ trace[n][2] = "session_partial"
                  /\ trace[n][3].error = e
                  /\ trace[n][3].diagnostics = Diagnostics
                  /\ Includes(e, "timed out") =>
                        /\ Suggests(trace[n][3],
                              "Check if Codex CLI is installed: run \"codex --version\"")
                        /\ Suggests(trace[n][3],
                              "Verify authentication: run \"codex auth status\"")
            /\ \A n \in Named("emitSessionEvent") : trace[n][2] # "bootstrap_failed"
            /\ \A n \in Observed : observed[n].found.ok

\* The content newSession is called with for the n-th sendMessage
InjectedContent(n) == [text |-> contentToSend(sends[n].content), injected |-> TRUE]

\* The n-th sendMessage got past the bootstrap await before the k-th
PassedBefore(n, k) ==
    \E i \in Observed, j \in Observed :
        /\ i < j
        /\ observed[i].caller.kind = "sendMessage" /\ observed[i].caller.n = n
        /\ observed[j].caller.kind = "sendMessage" /\ observed[j].caller.n = k

\* C20: newSession is called exactly once, for the first message that gets
\* past the bootstrap await and reaches the isFirstMessage test, with the
\* preset and skill context injected into its content; every other message is
\* sent with sendPrompt; isFirstMessage is true until then and false after.
C20_NewSessionExactlyOnce ==
    /\ Cardinality(Named("newSession")) <= 1
    /\ Cardinality(Reached("newSession")) <= 1
    /\ isFirstMessage <=> (Reached("newSession") \cup Reached("sendPrompt") = {})
    /\ \A n \in Reached("newSession") :
          /\ \A k \in Reached("sendPrompt") : PassedBefore(n, k)
          /\ sends[n].pc \in {"newSession", "done", "failed"} =>
                \E i \in Named("newSession") : trace[i][2] = InjectedContent(n)
    /\ Cardinality(Named("sendPrompt")) = Cardinality(Reached("sendPrompt"))
    /\ \A i \in Named("sendPrompt") : ~trace[i][2].injected

(***************************************************************************)
(* The message funnel and the network error handler                        *)
(***************************************************************************)

Dispatched == 1..Len(dispatches)

Funnelled == {n \in Dispatched : dispatches[n].op = "emitAndPersistMessage"}

Intercepted(n) == dispatches[n].message.type = "preview_open"

\* How often run n of the funnel called the collaborator
Made(n, call) ==
    Cardinality({k \in 1..Len(dispatches[n].made) : dispatches[n].made[k] = call})

\* C21: a message of the navigation interception shape is consumed: the run
\* of emitAndPersistMessage that receives it calls neither the transform, nor
\* the storage write, nor the emit, with persist true and with persist
\* false, so no such message is ever among the forwarded or the stored ones
C21_InterceptedNeverForwardedNorStored ==
    /\ \A n \in Funnelled :
           Intercepted(n) =>
               /\ dispatches[n].made = <<>>
               /\ dispatches[n].written = <<>>
               /\ dispatches[n].emitted = <<>>
    /\ \A k \in 1..Len(forwarded) : forwarded[k].type # "preview_open"
    /\ \A k \in 1..Len(persisted) : persisted[k].type # "preview_open"

\* The funnel received a navigation interception with persist true and
\* another with persist false
C21_InterceptedWithAndWithoutPersist ==
    \E n \in Funnelled, k \in Funnelled :
        /\ Intercepted(n) /\ dispatches[n].persist
        /\ Intercepted(k) /\ ~dispatches[k].persist

\* Whether the message has a durable form
Durable(message) == message.type \in {"content", "error", "agent_status", "tips"}

\* C22: every message that is no navigation interception is handed to the
\* emit exactly once, whatever persist and the transform say, and is handed
\* to the storage write exactly when persist is true and the message has a
\* durable form (once), never otherwise
C22_ForwardedOnceWrittenIffDurable ==
    \A n \in Funnelled :
        ~Intercepted(n) =>
            /\ Made(n, "emit") = 1
            /\ Made(n, "addMessage") =
                   (IF dispatches[n].persist /\ Durable(dispatches[n].message)
                    THEN 1 ELSE 0)

\* Whether run n reached the collaborator call that fails in it
Failed(n, call) == dispatches[n].thrown = Some(call)

\* C23: forwarding and persistence fail independently: when the emit fails,
\* the storage write of the same message has been made all the same, and
\* when the transform or the storage write fails, the message is handed to
\* the emit all the same
C23_IndependentFailureDomains ==
    \A n \in Funnelled :
        /\ Failed(n, "emit") =>
               Made(n, "addMessage") =
                   (IF dispatches[n].persist /\ Durable(dispatches[n].message)
                    THEN 1 ELSE 0)
        /\ (Failed(n, "transformMessage") \/ Failed(n, "addMessage")) =>
               Made(n, "emit") = 1

NetworkErrorsHandled == {n \in Dispatched : dispatches[n].op = "handleNetworkError"}

\* The taxonomy: the class of an error type
NetworkErrorClass(type) ==
    IF type \in {"cloudflare_blocked", "network_timeout", "connection_refused"}
    THEN type ELSE "unknown"

\* Title and remediation steps of each class
ClassTitle ==
    [ cloudflare_blocked |-> T("codex.network.cloudflare_blocked_title"),
      network_timeout |-> T("codex.network.network_timeout_title"),
      connection_refused |-> T("codex.network.connection_refused_title"),
      unknown |-> T("codex.network.unknown_error_title") ]

ClassRemediation ==
    [ cloudflare_blocked |-> T("codex.network.recovery_actions.cloudflare_blocked"),
      network_timeout |-> T("codex.network.recovery_actions.network_timeout"),
      connection_refused |-> T("codex.network.recovery_actions.connection_refused"),
      unknown |-> T("codex.network.recovery_actions.unknown") ]

\* C24: every network error handed to handleNetworkError is reported: the
\* handler forwards an agent-status message with status 'error' and then one
\* tips message that carries the error and the title and remediation steps
\* of the error's class, an unrecognized type counting as unknown; it throws
\* nothing and calls nothing but the transform, the storage write and the
\* emit (no retry)
C24_NetworkErrorAlwaysReported ==
    \A n \in NetworkErrorsHandled :
        LET error == dispatches[n].message
            class == NetworkErrorClass(error.type)
            sent  == dispatches[n].emitted
        IN  /\ dispatches[n].thrown = None
            /\ Len(sent) = 2
            /\ sent[1].type = "agent_status" /\ sent[1].data.status = "error"
            /\ sent[2].type = "tips"
            /\ sent[2].data.error = error
            /\ sent[2].data.title = ClassTitle[class]
            /\ sent[2].data.recoveryActions = ClassRemediation[class]
            /\ \A k \in 1..Len(dispatches[n].made) :
                   dispatches[n].made[k] \in {"transformMessage", "addMessage", "emit"}

(***************************************************************************)
(* Failures of sendMessage                                                 *)
(***************************************************************************)

\* Invocation n of sendMessage fails in this step
Fails(n) == sends[n].pc # "failed" /\ sends'[n].pc = "failed"

\* The value invocation n threw to its caller
Thrown(n) == sends'[n].error[1]

\* Whether the text of the thrown value says the usage limit is hit, in
\* either spelling
SaysUsageLimit(e) ==
    \E k \in 1..Len(e.message) :
        e.message[k] \in {"you've hit your usage limit", "You've hit your usage limit"}

\* The description chosen by the first of 'timeout', 'authentication',
\* 'network' the message contains, else the generic form
FirstMatchText(message) ==
    IF \E k \in 1..Len(message) : message[k] = "timeout"
    THEN <<"Request timed out. Please check your connection and try again.">>
    ELSE IF \E k \in 1..Len(message) : message[k] = "authentication"
    THEN <<"Authentication failed. Please verify your Codex credentials.">>
    ELSE IF \E k \in 1..Len(message) : message[k] = "network"
    THEN <<"Network error. Please check your internet connection.">>
    ELSE <<"Codex error: ">> \o message

\* What a failing step forwards, given the text it is to carry
ForwardsOnFailure(n, text) ==
    /\ sends'[n].error # None
    /\ trace' = trace \o (IF SaysUsageLimit(Thrown(n)) THEN <<>>
                          ELSE << <<"responseStream.emit", "error", text>> >>)

\* C25 as stated: a failing sendMessage re-raises what was thrown, forwards
\* nothing for a usage-limit error and otherwise forwards one error message
\* whose text is chosen by the first match among 'timeout', 'authentication',
\* 'network', else 'Codex error: <message>', whatever was thrown
C25_TextByFirstMatchForEveryFailure ==
    [][ \A n \in 1..Len(sends) :
            Fails(n) => ForwardsOnFailure(n, FirstMatchText(Thrown(n).message)) ]_vars

\* C25 amended: as above when the thrown value is an Error; for a thrown
\* value that is no Error the forwarded text is 'Failed to send message to
\* Codex'
C25_TextByFirstMatchForErrors ==
    [][ \A n \in 1..Len(sends) :
            Fails(n) =>
                ForwardsOnFailure(n,
                    IF Thrown(n).instanceofError THEN FirstMatchText(Thrown(n).message)
                    ELSE <<"Failed to send message to Codex">>) ]_vars

\* One sendMessage failed with an Error naming both 'authentication' and
\* 'network', another with a usage-limit error, and exactly one error
\* message, the authentication one, was forwarded
C25_AuthenticationForwardedUsageLimitSuppressed ==
    /\ \E n \in 1..Len(sends) :
           /\ sends[n].pc = "failed"
           /\ sends[n].error =
                  Some(ErrorOf(<<"authentication", " failed: ", "network", " unreachable">>))
    /\ \E n \in 1..Len(sends) :
           /\ sends[n].pc = "failed"
           /\ sends[n].error = Some(ErrorOf(<<"You've hit your usage limit">>))
    /\ Cardinality({k \in 1..Len(trace) : trace[k][1] = "responseStream.emit"}) = 1
    /\ \E k \in 1..Len(trace) :
           /\ trace[k][1] = "responseStream.emit"
           /\ trace[k][3] = <<"Authentication failed. Please verify your Codex credentials.">>

(***************************************************************************)
(* Teardown                                                                *)
(***************************************************************************)

\* cleanup has run on a session that has an agent
TornDown == teardown.pc \in {"stopping", "stopped"}

ApplyFails(i) == calls[i].pc = "applying" /\ calls'[i].pc = "failed"

\* The failure is reported and raised, and the store is left as it was
FailureReported(i) ==
    /\ \E e \in ApplyErrors :
           /\ calls'[i].effects =
                  calls[i].effects \o
                      << <<"emitSessionEvent", "patch_failed",
                           [callId |-> calls[i].callId, error |-> e]>> >>
           /\ calls'[i].thrown = Some(e)
    /\ map' = map

\* Invocations of confirm that approved a patch of the files of r for the
\* session and failed to apply it
FailedApprovals(r) ==
    {i \in Calls : /\ calls[i].pc = "failed"
                   /\ calls[i].decision = "approved_for_session"
                   /\ SamePatch(RequestOf(calls[i].callId).req, r)}

\* C27 as stated: a failing apply emits patch_failed with the call id and
\* the error and raises the error to the caller of confirm, the store keeps
\* the cached decision, and every later patch request for the same files is
\* auto-approved
C27_FailedPatchStaysApproved ==
    [][ /\ \A i \in Calls : ApplyFails(i) => FailureReported(i)
        /\ (Raised /\ FailedApprovals(NewRequest.req) # {})
           => /\ checkPatchApproval(map, NewRequest.req.files)
              /\ AutoResolved("allow_always", "approved_for_session") ]_vars

\* C27 amended: as above, the later request being auto-approved provided no
\* reject_always for the same files was resolved after the approval
C27_FailedPatchStaysApprovedUnlessRejected ==
    [][ /\ \A i \in Calls : ApplyFails(i) => FailureReported(i)
        /\ (Raised /\ FailedApprovals(NewRequest.req) # {}
                   /\ calls[Latest(AlwaysPatchCalls(NewRequest.req))].data = "allow_always")
           => /\ checkPatchApproval(map, NewRequest.req.files)
              /\ AutoResolved("allow_always", "approved_for_session") ]_vars

\* A patch allowed for the session failed to apply, and a request for the
\* same files that came after that decision was approved without a dialog
C27_FailedThenAutoApproved ==
    \E i \in Calls, k \in Calls, n \in 1..Len(requests) :
        /\ i < k
        /\ calls[i].pc = "failed" /\ calls[i].data = "allow_always"
        /\ calls[i].id = "msg"
        /\ HasEffect(i, <<"emitSessionEvent", "patch_failed",
                          [callId |-> calls[i].callId,
                           error |-> <<"EACCES: permission denied">>]>>)
        /\ requests[n].outcome = "allow_always"
        /\ SamePatch(RequestOf(calls[i].callId).req, requests[n].req)
        /\ calls[k].callId = requests[n].callId
        /\ get(map, createPatchApprovalKey(requests[n].req.files)) = "approved_for_session"


\* Keys that serialize alike
SameSerialization(a, b) == acpSerializeKey(a) = acpSerializeKey(b)

\* C28: the ACP store keeps only allow_always decisions: a put with any other
\* option leaves the store as it was, and a key is approved for the session
\* exactly when an allow_always put for a key with the same serialization
\* happened since the last clear (none happened in a new or a cleared store).
C28_OnlyAllowAlwaysStored ==
    [][ /\ \A s \in DOMAIN acpMap' : acpMap'[s] = "allow_always"
        /\ acpLastOp'.op = "put" =>
             /\ acpLastOp'.optionId # "allow_always" => acpMap' = acpMap
             /\ acpLastOp'.optionId = "allow_always" =>
                  \A q \in AcpKeys :
                      acpIsApprovedForSession(acpMap', q)
                          <=> \/ acpIsApprovedForSession(acpMap, q)
                              \/ SameSerialization(q, acpLastOp'.key)
        /\ acpLastOp'.op = "clear" =>
             \A q \in AcpKeys : ~acpIsApprovedForSession(acpMap', q)
        /\ acpLastOp.op = "new" =>
             \A q \in AcpKeys : ~acpIsApprovedForSession(acpMap, q)
        /\ acpLastOp'.op = "isApprovedForSession" => acpMap' = acpMap ]_vars

\* C28 witness: a reject_always put arrived at a store that holds one approval
C28_RejectAlwaysPutOnFilledStore ==
    /\ acpLastOp.op = "put"
    /\ acpLastOp.optionId = "reject_always"
    /\ acpSize(acpMap) = 1
    /\ ~acpIsApprovedForSession(acpMap, acpLastOp.key)
    /\ \E q \in AcpKeys : acpIsApprovedForSession(acpMap, q)

\* The field of a key's rawInput, absent when there is no rawInput
RawField(key, f) == IF key.rawInput = None THEN Undefined ELSE key.rawInput[1][f]

\* Keys equal in kind, title, command, path and file_path
SameOperation(a, b) ==
    /\ a.kind = b.kind
    /\ a.title = b.title
    /\ \A f \in {"command", "path", "file_path"} : RawField(a, f) = RawField(b, f)

\* An empty value read as the absent one
Absent(v) == IF v = "" THEN Undefined ELSE v

\* Equal in kind, title, command, path and file_path, an empty kind read as
\* 'unknown' and an empty command, path or file_path read as absent
SameOperationNormalized(a, b) ==
    /\ OrDefault(a.kind, "unknown") = OrDefault(b.kind, "unknown")
    /\ a.title = b.title
    /\ \A f \in {"command", "path", "file_path"} :
           Absent(RawField(a, f)) = Absent(RawField(b, f))

\* A lookup that follows the first allow_always put into an empty store
LookedUpAfterApproval ==
    /\ acpLastOp.op = "isApprovedForSession"
    /\ acpLastOp.putOptionId = "allow_always"

\* C29 (as stated): a key addresses the approved entry exactly when it equals
\* the approved key in kind, title, command, path and file_path.
C29_EntryByKindTitleAndIdentifyingFields ==
    LookedUpAfterApproval =>
        (acpLastOp.result <=> SameOperation(acpLastOp.key, acpLastOp.putKey))

\* C29 (amended): a key addresses the approved entry exactly when it equals the
\* approved key in kind, title, command, path and file_path, where an empty
\* kind counts as 'unknown' and an empty command, path or file_path counts as
\* absent; other fields of rawInput play no part.
C29_EntryByNormalizedKindTitleAndFields ==
    LookedUpAfterApproval =>
        (acpLastOp.result <=> SameOperationNormalized(acpLastOp.key, acpLastOp.putKey))

\* C29 witness: keys that differ only in the description share the entry, and
\* a key with another command does not
C29_DescriptionIgnored ==
    /\ LookedUpAfterApproval
    /\ acpLastOp.result
    /\ RawField(acpLastOp.key, "description") # RawField(acpLastOp.putKey, "description")
    /\ RawField(acpLastOp.key, "command") = "ls"


\* The decision the store keeps for an option: only the two session-wide
\* options have one
CachedAs(data) ==
    IF data = "allow_always" THEN Some("approved_for_session")
    ELSE IF data = "reject_always" THEN Some("abort")
    ELSE None

\* The canonical key of the request behind a call id: the exec key when exec
\* metadata exists, otherwise the patch key of its file-change paths
CanonicalKey(meta, changes, callId) ==
    IF callId \in DOMAIN meta
    THEN Some(ExecApprovalKey(meta[callId].command, meta[callId].cwd))
    ELSE IF callId \in DOMAIN changes
    THEN Some(PatchApprovalKey(changes[callId]))
    ELSE None

\* C30: confirm writes to the store only for allow_always and reject_always:
\* with allow_once, reject_once or any unknown option the store stays as it
\* was, and a session-wide decision is stored under the exec key of the call
\* id when exec metadata exists, otherwise under the patch key of the call
\* id's file-change paths, and nowhere else.
C30_ConfirmWritesOnlySessionDecisions ==
    [][ Confirmed =>
          LET call == NewCall
              key  == CanonicalKey(execRequestMeta', patchChanges', call.callId)
          IN  IF CachedAs(call.data) = None \/ key = None
              THEN map' = map
              ELSE /\ get(map', key[1]) = CachedAs(call.data)[1]
                   /\ \A k \in DOMAIN map' :
                          k # serializeKey(key[1]) => k \in DOMAIN map /\ map'[k] = map[k]
                   /\ \A k \in DOMAIN map : k \in DOMAIN map' ]_vars

\* C30 witness: a reject_always for a patch request is stored under the patch
\* key, and a later confirm with an unknown option left the store alone
C30_PatchRejectedThenUnknownOption ==
    /\ Len(calls) = 2
    /\ calls[1].data = "reject_always"
    /\ calls[1].callId \in DOMAIN patchChanges
    /\ get(map, PatchApprovalKey(patchChanges[calls[1].callId])) = "abort"
    /\ calls[2].data \in {"later", "constructor"}
    /\ Cardinality(DOMAIN map) = 1


RecognizedPrefixes == {"permission_", "patch_", "elicitation_", "exec_"}

\* The call id with one leading recognized prefix removed, if it has one
StrippedOnce(callId) ==
    IF Len(callId) > 0 /\ callId[1] \in RecognizedPrefixes
    THEN SubSeq(callId, 2, Len(callId))
    ELSE callId

\* The ids a call acknowledged to the transport and released the gate with
AcknowledgedIds(i) ==
    { calls[i].effects[j][2] :
          j \in {k \in Effects(i) : calls[i].effects[k][1] = "respondElicitation"} }

ReleasedIds(i) ==
    { calls[i].effects[j][2] :
          j \in {k \in Effects(i) : calls[i].effects[k][1] = "resolvePermission"} }

\* C31: the id sent to respondElicitation and resolvePermission is the call
\* id with one leading recognized prefix removed, once, and the unmodified id
\* when it has none; a second prefix left after stripping stays.
C31_OnePrefixStripped ==
    \A i \in Calls :
        calls[i].pc = "done" =>
            /\ AcknowledgedIds(i) = {StrippedOnce(calls[i].callId)}
            /\ ReleasedIds(i) = {StrippedOnce(calls[i].callId)}

\* C31 witness: a doubly prefixed id kept its second prefix, and an id
\* without a prefix went through unmodified
C31_SecondPrefixKept ==
    \E i, j \in Calls :
        /\ calls[i].pc = "done" /\ calls[j].pc = "done"
        /\ calls[i].callId[1] = "permission_" /\ calls[i].callId[2] = "patch_"
        /\ Len(calls[i].callId) = 3
        /\ ReleasedIds(i) = {<<"patch_", calls[i].callId[3]>>}
        /\ Len(calls[j].callId) = 1
        /\ AcknowledgedIds(j) = {calls[j].callId}


\* The store after put(keys[1], d), ..., put(keys[n], d), called one by one
RECURSIVE PutOneByOne(_, _, _, _)
PutOneByOne(m, keys, n, d) ==
    IF n = 0 THEN m ELSE put(PutOneByOne(m, keys, n - 1, d), keys[n], d)

\* C32: putAll(keys, d) leaves the store as calling put(k, d) for each k of
\* keys does, changes nothing for d approved or denied, and the state the
\* next operation finds has every key of the list written, never only some.
C32_PutAllIsEveryPut ==
    [][ lastOp'.op = "putAll" =>
          LET keys == lastOp'.keys
              d    == lastOp'.decision
          IN  /\ map' = PutOneByOne(map, keys, Len(keys), d)
              /\ d \in {"approved", "denied"} => map' = map
              /\ d \in {"approved_for_session", "abort"} =>
                     \A i \in 1..Len(keys) : get(map', keys[i]) = d ]_vars

\* C32 witness: a putAll of abort over two different keys wrote both
C32_TwoKeysRejectedTogether ==
    /\ lastOp.op = "putAll"
    /\ lastOp.decision = "abort"
    /\ Len(lastOp.keys) = 2
    /\ serializeKey(lastOp.keys[1]) # serializeKey(lastOp.keys[2])
    /\ isRejectedForSession(map, lastOp.keys[1])
    /\ isRejectedForSession(map, lastOp.keys[2])
    /\ size(map) = 2


\* The serialized keys a put or putAll call names
CallKeys(op) ==
    IF op.op = "put" THEN {serializeKey(op.key)}
    ELSE {serializeKey(op.keys[i]) : i \in 1..Len(op.keys)}

\* C33: entries come from put and putAll only and go with clear only: a put
\* or putAll keeps every cached key, never lowers size and adds no key but
\* those it was given; after clear, get is absent for every key and size is 0.
C33_GrowsUntilCleared ==
    [][ /\ lastOp'.op \in {"put", "putAll"} =>
            /\ DOMAIN map \subseteq DOMAIN map'
            /\ size(map') >= size(map)
            /\ (DOMAIN map') \ (DOMAIN map) \subseteq CallKeys(lastOp')
        /\ lastOp'.op = "clear" =>
            /\ size(map') = 0
            /\ \A k \in StoreKeys : get(map', k) = Undefined ]_vars

\* C33 witness: a putAll of approvals met a store holding a rejection under
\* another key, and the rejection is still there
C33_OlderEntryKept ==
    /\ lastOp.op = "putAll"
    /\ lastOp.decision = "approved_for_session"
    /\ size(map) = 2
    /\ \E s \in DOMAIN map : s \notin CallKeys(lastOp) /\ map[s] = "abort"


Cacheable == {"approved_for_session", "abort"}

\* C34: a key holds one cached decision and the last cacheable put wins: a
\* cacheable put over an entry replaces it without adding one, in every state
\* no key is both rejected for the session and approved for the session, and
\* a key is rejected for the session exactly when its cached decision is abort.
C34_LastCacheablePutWins ==
    [][ /\ \A k \in StoreKeys :
               /\ ~(isRejectedForSession(map, k) /\ allApprovedForSession(map, <<k>>))
               /\ isRejectedForSession(map, k)
                      <=> /\ serializeKey(k) \in DOMAIN map
                          /\ map[serializeKey(k)] = "abort"
        /\ (lastOp'.op = "put" /\ lastOp'.decision \in Cacheable) =>
               /\ get(map', lastOp'.key) = lastOp'.decision
               /\ isRejectedForSession(map', lastOp'.key) <=> lastOp'.decision = "abort"
               /\ allApprovedForSession(map', <<lastOp'.key>>)
                      <=> lastOp'.decision = "approved_for_session"
               /\ serializeKey(lastOp'.key) \in DOMAIN map => size(map') = size(map) ]_vars

\* C34 witness: the last put rejected a key for the session while another
\* key stays approved
C34_RejectedBesideApproved ==
    /\ lastOp.op = "put"
    /\ lastOp.decision = "abort"
    /\ isRejectedForSession(map, lastOp.key)
    /\ ~allApprovedForSession(map, <<lastOp.key>>)
    /\ \E k \in StoreKeys : allApprovedForSession(map, <<k>>) /\ ~isRejectedForSession(map, k)


\* The tips messages a handled network error put on the response stream
TipsOf(n) ==
    { j \in 1..Len(dispatches[n].emitted) : dispatches[n].emitted[j].type = "tips" }

\* How much of the original error the technical detail block of a message shows
ShownOfOriginal(message) == message.data.message.errorDetails.length

\* C35: the technical detail block of a network-error message shows at most
\* 200 characters of the original error, whatever its length: all of an error
\* of up to 200 characters, and the first 200 of a longer one.
C35_DetailAtMost200Characters ==
    \A n \in NetworkErrorsHandled :
        \A j \in TipsOf(n) :
            LET message  == dispatches[n].emitted[j]
                original == message.data.error.originalError.length
            IN  /\ ShownOfOriginal(message) <= 200
                /\ ShownOfOriginal(message) = IF original <= 200 THEN original ELSE 200

\* C35 witness: an error of 201 characters was reported with 200 of them
C35_LongErrorCut ==
    \E n \in NetworkErrorsHandled :
        \E j \in TipsOf(n) :
            /\ dispatches[n].emitted[j].data.error.originalError.length = 201
            /\ ShownOfOriginal(dispatches[n].emitted[j]) = 200


\* A per-call value was given
Given(v) == v \in {"true", "false"}

\* The globally configured value, absent when nothing is configured
GlobalYoloMode(codexConfig) ==
    IF codexConfig = None THEN Undefined ELSE codexConfig[1].yoloMode

\* C36: the fully-automatic mode passed to the agent is the per-call value
\* whenever one is given, an explicit false over a global true included, and
\* the globally configured value only when no per-call value is given.
C36_PerCallModeOverGlobal ==
    agentConfig # None =>
        LET built == agentConfig[1]
        IN  IF Given(built.data.yoloMode)
            THEN built.yoloMode = built.data.yoloMode
            ELSE built.yoloMode = GlobalYoloMode(built.codexConfig)

\* C36 witness: an explicit false reached the agent although the global
\* setting is true
C36_ExplicitFalseOverGlobalTrue ==
    /\ agentConfig # None
    /\ agentConfig[1].data.yoloMode = "false"
    /\ GlobalYoloMode(agentConfig[1].codexConfig) = "true"
    /\ agentConfig[1].yoloMode = "false"
    /\ bootstrap = "resolved"


\* C37: whatever the interleaving of sendMessage calls, no sendPrompt is
\* issued to the agent before the newSession of the first message was issued.
C37_NoPromptBeforeNewSession ==
    \A i \in Named("sendPrompt") : \E j \in Named("newSession") : j < i


ConfirmsObserved == {n \in Observed : observed[n].caller.kind = "confirm"}

\* C38: a decision delivered before the bootstrap has settled writes nothing
\* to the store, applies no file change, acknowledges nothing and releases no
\* gate while the bootstrap is pending; when the bootstrap fails, confirm
\* rejects with the bootstrap error and none of these ever happens; whatever
\* confirm did, it did for a caller that found the bootstrap completed.
C38_ConfirmWaitsForBootstrap ==
    /\ bootstrap = "pending" => calls = <<>> /\ map = EmptyMap
    /\ bootstrap = "rejected" =>
          /\ calls = <<>> /\ map = EmptyMap
          /\ \A n \in ConfirmsObserved :
                 observed[n].found = [ok |-> FALSE, error |-> bootError]
    /\ \A i \in Calls :
          \E n \in ConfirmsObserved :
              /\ observed[n].caller.callId = calls[i].callId
              /\ observed[n].found.ok

\* C38 witness: a decision was delivered, the bootstrap then failed, and the
\* caller got the bootstrap error with nothing done for its call id
C38_EarlyDecisionRejectedWithBootstrapError ==
    /\ bootstrap = "rejected"
    /\ bootError = <<"spawn codex ENOENT">>
    /\ calls = <<>>
    /\ \E n \in ConfirmsObserved :
          /\ observed[n].caller.callId = <<"permission_", "c1">>
          /\ observed[n].found = [ok |-> FALSE, error |-> bootError]


\* The gate releases of a call, each with the acknowledgement sent before it
Releases(i) == {j \in Effects(i) : calls[i].effects[j][1] = "resolvePermission"}

\* C39: the gate is released as approved exactly when the decision
\* acknowledged to the transport for the same id just before it is approved or
\* approved_for_session; a call whose decision is denied or abort runs to its
\* end and releases the gate with false, never with true.
C39_GateAgreesWithAcknowledgement ==
    \A i \in Calls :
        LET e == calls[i].effects
        IN  /\ \A j \in Releases(i) :
                  /\ j > 1
                  /\ e[j - 1][1] = "respondElicitation"
                  /\ e[j - 1][2] = e[j][2]
                  /\ e[j][3] <=> e[j - 1][3] \in {"approved", "approved_for_session"}
            /\ calls[i].decision \in {"denied", "abort"} =>
                  /\ calls[i].pc = "done"
                  /\ Releases(i) # {}
                  /\ \A j \in Releases(i) : ~e[j][3]

\* C39 witness: one call acknowledged abort and released the gate with false,
\* another acknowledged approved_for_session and released it with true
C39_AbortClosedSessionApprovalOpened ==
    \E i, k \in Calls :
        /\ calls[i].decision = "abort"
        /\ HasEffect(i, ResolvePermission(normalizeCallId(calls[i].callId), FALSE))
        /\ calls[k].decision = "approved_for_session"
        /\ calls[k].pc = "done"
        /\ HasEffect(k, RespondElicitation(normalizeCallId(calls[k].callId),
                                           "approved_for_session"))
        /\ HasEffect(k, ResolvePermission(normalizeCallId(calls[k].callId), TRUE))


Sends == 1..Len(sends)

\* C40: sendMessage marks the conversation as processing before its first
\* await; every invocation that fails, at the bootstrap await, in the file
\* references, in the injection, in newSession or sendPrompt, with a
\* usage-limit error or any other, sets the flag to false and re-raises; so
\* once every send made so far has failed the conversation is not busy.
C40_FailedSendNotBusy ==
    [][ /\ Len(sends') = Len(sends) + 1 =>
              /\ processing'
              /\ sends'[Len(sends')].pc = "bootstrap"
        /\ \A n \in Sends :
              Fails(n) => /\ ~processing'
                          /\ sends'[n].error # None
        /\ (sends # <<>> /\ \A n \in Sends : sends[n].pc = "failed") => ~processing ]_vars

\* C40 witness: one send failed with a usage-limit error, another with a
\* timeout, and the conversation is not marked busy
C40_UsageLimitAndTimeoutFailed ==
    /\ ~processing
    /\ \E n, k \in Sends :
          /\ sends[n].pc = "failed" /\ sends[k].pc = "failed"
          /\ SaysUsageLimit(sends[n].error[1])
          /\ sends[k].error[1] = ErrorOf(<<"request ", "timeout">>)

====
